---- MODULE Spec2Model ----
(***************************************************************************)
(* Fact reconciliation engine of watchTower: per-tag extraction from an    *)
(* SEC companyfacts document, merge-by-preference, component sums, the     *)
(* quarterly Q4 derivation and the keyword fallback.                       *)
(*                                                                         *)
(* Python values are modelled as follows.  A dict whose iteration order is *)
(* never observed is a function with a finite domain (the empty dict is    *)
(* <<>>).  A dict whose iteration order the code observes is a sequence of *)
(* records in insertion order.  An optional value is <<>> (None) or <<v>>. *)
(* A tag name is the sequence of its characters, so that substring tests   *)
(* and lower-casing are computed, not tabulated.  Dates are integers in    *)
(* the order of their ISO strings, amounts are integers.                   *)
(***************************************************************************)
EXTENDS Integers, Sequences, FiniteSets, TLC

(* ------------------------------ bounds --------------------------------- *)

\* the largest number of (tag, fiscal year) facts of a generated document
MaxFacts == 3

Years == {2021, 2022}
Vals  == {80, 90, 100}

(* --------------------------- python helpers ---------------------------- *)

NoneV == <<>>
Some(v) == <<v>>

\* d[k] = v on a dict modelled as a function
DictPut(d, k, v) == [x \in (DOMAIN d) \cup {k} |-> IF x = k THEN v ELSE d[x]]

\* d.get(k, default)
DictGet(d, k, default) == IF k \in DOMAIN d THEN d[k] ELSE default

\* needle in hay, for strings as character sequences
Contains(hay, needle) ==
    \E i \in 0..(Len(hay) - Len(needle)) : SubSeq(hay, i + 1, i + Len(needle)) = needle

MinOf(S) == CHOOSE x \in S : \A y \in S : x <= y

\* sorted(S) for a set of integers
RECURSIVE SortedInts(_)
SortedInts(S) == IF S = {} THEN <<>> ELSE <<MinOf(S)>> \o SortedInts(S \ {MinOf(S)})

(* ------------------------------ tag names ------------------------------ *)

NetIncomeLoss == <<"N","e","t","I","n","c","o","m","e","L","o","s","s">>
ProfitLoss == <<"P","r","o","f","i","t","L","o","s","s">>
NetEarnings == <<"N","e","t","E","a","r","n","i","n","g","s">>
WeightedAverageNumberOfDilutedSharesOutstanding == <<"W","e","i","g","h","t","e","d","A","v","e","r","a","g","e","N","u","m","b","e","r","O","f","D","i","l","u","t","e","d","S","h","a","r","e","s","O","u","t","s","t","a","n","d","i","n","g">>
WeightedAverageNumberOfSharesOutstandingDiluted == <<"W","e","i","g","h","t","e","d","A","v","e","r","a","g","e","N","u","m","b","e","r","O","f","S","h","a","r","e","s","O","u","t","s","t","a","n","d","i","n","g","D","i","l","u","t","e","d">>

CashCashEquivalentsAndShortTermInvestments == <<"C","a","s","h","C","a","s","h","E","q","u","i","v","a","l","e","n","t","s","A","n","d","S","h","o","r","t","T","e","r","m","I","n","v","e","s","t","m","e","n","t","s">>
CashAndCashEquivalentsAtCarryingValue == <<"C","a","s","h","A","n","d","C","a","s","h","E","q","u","i","v","a","l","e","n","t","s","A","t","C","a","r","r","y","i","n","g","V","a","l","u","e">>
ShortTermInvestments == <<"S","h","o","r","t","T","e","r","m","I","n","v","e","s","t","m","e","n","t","s">>
MarketableSecuritiesCurrent == <<"M","a","r","k","e","t","a","b","l","e","S","e","c","u","r","i","t","i","e","s","C","u","r","r","e","n","t">>
DebtCurrent == <<"D","e","b","t","C","u","r","r","e","n","t">>
LongTermDebtCurrent == <<"L","o","n","g","T","e","r","m","D","e","b","t","C","u","r","r","e","n","t">>
CurrentPortionOfLongTermDebt == <<"C","u","r","r","e","n","t","P","o","r","t","i","o","n","O","f","L","o","n","g","T","e","r","m","D","e","b","t">>
CurrentPortionOfLongTermDebtAndCapitalLeaseObligations == <<"C","u","r","r","e","n","t","P","o","r","t","i","o","n","O","f","L","o","n","g","T","e","r","m","D","e","b","t","A","n","d","C","a","p","i","t","a","l","L","e","a","s","e","O","b","l","i","g","a","t","i","o","n","s">>
ShortTermBorrowings == <<"S","h","o","r","t","T","e","r","m","B","o","r","r","o","w","i","n","g","s">>
ShortTermDebt == <<"S","h","o","r","t","T","e","r","m","D","e","b","t">>
CommercialPaper == <<"C","o","m","m","e","r","c","i","a","l","P","a","p","e","r">>
LongTermDebtNoncurrent == <<"L","o","n","g","T","e","r","m","D","e","b","t","N","o","n","c","u","r","r","e","n","t">>
LongTermDebt == <<"L","o","n","g","T","e","r","m","D","e","b","t">>
LongTermBorrowings == <<"L","o","n","g","T","e","r","m","B","o","r","r","o","w","i","n","g","s">>
Debt == <<"D","e","b","t">>
LongTermDebtAndFinanceLeaseObligations == <<"L","o","n","g","T","e","r","m","D","e","b","t","A","n","d","F","i","n","a","n","c","e","L","e","a","s","e","O","b","l","i","g","a","t","i","o","n","s">>
LongTermDebtAndCapitalLeaseObligations == <<"L","o","n","g","T","e","r","m","D","e","b","t","A","n","d","C","a","p","i","t","a","l","L","e","a","s","e","O","b","l","i","g","a","t","i","o","n","s">>

RevenueFromContractWithCustomerExcludingAssessedTax == <<"R","e","v","e","n","u","e","F","r","o","m","C","o","n","t","r","a","c","t","W","i","t","h","C","u","s","t","o","m","e","r","E","x","c","l","u","d","i","n","g","A","s","s","e","s","s","e","d","T","a","x">>
SalesRevenueNet == <<"S","a","l","e","s","R","e","v","e","n","u","e","N","e","t">>
Revenues == <<"R","e","v","e","n","u","e","s">>
SalesRevenueGoodsNet == <<"S","a","l","e","s","R","e","v","e","n","u","e","G","o","o","d","s","N","e","t">>
RevenueFromContractWithCustomerIncludingAssessedTax == <<"R","e","v","e","n","u","e","F","r","o","m","C","o","n","t","r","a","c","t","W","i","t","h","C","u","s","t","o","m","e","r","I","n","c","l","u","d","i","n","g","A","s","s","e","s","s","e","d","T","a","x">>
TotalRevenue == <<"T","o","t","a","l","R","e","v","e","n","u","e">>
OperatingRevenue == <<"O","p","e","r","a","t","i","n","g","R","e","v","e","n","u","e">>
RevenuesNetOfInterestExpense == <<"R","e","v","e","n","u","e","s","N","e","t","O","f","I","n","t","e","r","e","s","t","E","x","p","e","n","s","e">>
AccountsPayableCurrent == <<"A","c","c","o","u","n","t","s","P","a","y","a","b","l","e","C","u","r","r","e","n","t">>
SalesRevenueServicesNet == <<"S","a","l","e","s","R","e","v","e","n","u","e","S","e","r","v","i","c","e","s","N","e","t">>
AccountsPayableTradeCurrent == <<"A","c","c","o","u","n","t","s","P","a","y","a","b","l","e","T","r","a","d","e","C","u","r","r","e","n","t">>
AccountsReceivableNetCurrent == <<"A","c","c","o","u","n","t","s","R","e","c","e","i","v","a","b","l","e","N","e","t","C","u","r","r","e","n","t">>

StrShare  == <<"S","h","a","r","e">>
StrShares == <<"S","h","a","r","e","s">>
StrsharesLower == <<"s","h","a","r","e","s">>

(* --------------------- app/etl/sec_fetch_companyfacts ------------------ *)

UNIT_PRIORITY == [_money |-> <<"USD">>, _shares |-> <<"shares">>]

UNIT_BY_TAG ==
    [t \in {WeightedAverageNumberOfDilutedSharesOutstanding,
            WeightedAverageNumberOfSharesOutstandingDiluted} |-> <<"shares">>]

\* the units dict of a tag node keeps the document's order of its units
UnitNames(units) == {units[i].unit : i \in DOMAIN units}

UnitArr(units, u) == units[CHOOSE i \in DOMAIN units : units[i].unit = u].arr

\* for u in lst: if u in units: return u
RECURSIVE FirstUnitIn(_, _)
FirstUnitIn(lst, units) ==
    IF lst = <<>> THEN NoneV
    ELSE IF Head(lst) \in UnitNames(units) THEN Some(Head(lst))
    ELSE FirstUnitIn(Tail(lst), units)

\* for u, arr in units.items(): if isinstance(arr, list) and arr: return u
RECURSIVE FirstNonEmptyUnit(_)
FirstNonEmptyUnit(units) ==
    IF units = <<>> THEN NoneV
    ELSE IF Head(units).arr # <<>> THEN Some(Head(units).unit)
    ELSE FirstNonEmptyUnit(Tail(units))

_pick_unit(tag, units) ==
    LET override == IF tag \in DOMAIN UNIT_BY_TAG
                    THEN FirstUnitIn(UNIT_BY_TAG[tag], units) ELSE NoneV
        share_like == \/ Contains(tag, StrShare)
                      \/ Contains(tag, StrShares)
                      \/ Contains(tag, StrsharesLower)
        pri == IF share_like THEN UNIT_PRIORITY._shares ELSE UNIT_PRIORITY._money
        byPriority == FirstUnitIn(pri, units)
    IN  IF override # NoneV THEN override
        ELSE IF byPriority # NoneV THEN byPriority
        ELSE FirstNonEmptyUnit(units)

\* mutant of AnnualKeep: an equal end date replaces the kept observation too
AnnualKeepOnTie(out, obs) ==
    IF obs.fy = NoneV \/ obs.fp # "FY" \/ obs.val = NoneV THEN out
    ELSE LET fy == obs.fy[1]
         IN  IF \/ fy \notin DOMAIN out
                \/ (obs.end # NoneV /\ out[fy].end # NoneV /\ obs.end[1] >= out[fy].end[1])
             THEN DictPut(out, fy, [fy |-> fy, val |-> obs.val[1], end |-> obs.end])
             ELSE out

\* One step of the loop of extract_annual_usd_facts over units[unit_key]:
\* out is {fy: {"fy", "val", "end"}}.
AnnualKeep(out, obs) ==
    IF obs.fy = NoneV \/ obs.fp # "FY" \/ obs.val = NoneV THEN out
    ELSE LET fy == obs.fy[1]
         IN  IF \/ fy \notin DOMAIN out
                \/ (obs.end # NoneV /\ out[fy].end # NoneV /\ obs.end[1] > out[fy].end[1])
             THEN DictPut(out, fy, [fy |-> fy, val |-> obs.val[1], end |-> obs.end])
             ELSE out

RECURSIVE AnnualLoop(_, _)
AnnualLoop(arr, out) ==
    IF arr = <<>> THEN out ELSE AnnualLoop(Tail(arr), AnnualKeep(out, Head(arr)))

\* cf is {} (Empty), or a dict that may hold "facts": {"us-gaap": {tag: node}}
TagNode(cf, tag) ==
    LET facts  == DictGet(cf, "facts", <<>>)
        usgaap == DictGet(facts, "us-gaap", <<>>)
    IN  DictGet(usgaap, tag, <<>>)

extract_annual_usd_facts(cf, tag) ==
    IF DOMAIN cf = {} \/ "facts" \notin DOMAIN cf THEN <<>>
    ELSE LET node == TagNode(cf, tag) IN
         IF DOMAIN node = {} THEN <<>>
         ELSE LET units == DictGet(node, "units", <<>>)
                  unit_key == _pick_unit(tag, units)
              IN  IF unit_key = NoneV \/ unit_key[1] \notin UnitNames(units) THEN <<>>
                  ELSE LET out == AnnualLoop(UnitArr(units, unit_key[1]), <<>>)
                           ys == SortedInts(DOMAIN out)
                       IN  [i \in 1..Len(ys) |-> out[ys[i]]]

(* ------------------------------ period keys ---------------------------- *)

\* A period key is (fiscal_year, fiscal_period); Python orders the tuples by
\* year, then by the period string ("FY" < "Q1" < "Q2" < "Q3" < "Q4").
PeriodStrings == <<"FY", "Q1", "Q2", "Q3", "Q4">>

StrRank(fp) == CHOOSE i \in DOMAIN PeriodStrings : PeriodStrings[i] = fp

KeyLess(a, b) == a[1] < b[1] \/ (a[1] = b[1] /\ StrRank(a[2]) < StrRank(b[2]))

\* sorted(keys)
RECURSIVE SortedKeys(_)
SortedKeys(S) ==
    IF S = {} THEN <<>>
    ELSE LET m == CHOOSE x \in S : \A y \in S \ {x} : KeyLess(x, y)
         IN  <<m>> \o SortedKeys(S \ {m})

(* --------------------- strings: case and order ------------------------- *)

Kw_revenue == <<"r","e","v","e","n","u","e">>
Kw_sales == <<"s","a","l","e","s">>
Kw_accounts == <<"a","c","c","o","u","n","t","s">>
Kw_payable == <<"p","a","y","a","b","l","e">>
UpperCase == <<"A","B","C","D","E","F","G","H","I","J","K","L","M","N","O","P","Q","R","S","T","U","V","W","X","Y","Z">>
LowerCase == <<"a","b","c","d","e","f","g","h","i","j","k","l","m","n","o","p","q","r","s","t","u","v","w","x","y","z">>

\* c.lower()
LowerChar(c) ==
    IF \E i \in DOMAIN UpperCase : UpperCase[i] = c
    THEN LowerCase[CHOOSE i \in DOMAIN UpperCase : UpperCase[i] = c]
    ELSE c

\* s.lower()
LowerStr(s) == [i \in DOMAIN s |-> LowerChar(s[i])]

\* the code point order of the letters: upper case before lower case
CharCode(c) ==
    LET abc == UpperCase \o LowerCase
    IN  CHOOSE i \in DOMAIN abc : abc[i] = c

\* a < b for strings
RECURSIVE StrLess(_, _)
StrLess(a, b) ==
    IF b = <<>> THEN FALSE
    ELSE IF a = <<>> THEN TRUE
    ELSE IF Head(a) # Head(b) THEN CharCode(Head(a)) < CharCode(Head(b))
    ELSE StrLess(Tail(a), Tail(b))

\* sorted(S) for a set of strings
RECURSIVE SortedStrs(_)
SortedStrs(S) ==
    IF S = {} THEN <<>>
    ELSE LET m == CHOOSE x \in S : \A y \in S \ {x} : StrLess(x, y)
         IN  <<m>> \o SortedStrs(S \ {m})

\* sorted((cf.get("facts", {}) or {}).get("us-gaap", {}).keys())
list_available_tags(cf) ==
    SortedStrs(DOMAIN DictGet(DictGet(cf, "facts", <<>>), "us-gaap", <<>>))

(* --------------- extract_quarterly_usd_facts (not in the sources) ------- *)

\* One observation of the chosen unit: kept when its fiscal year is present
\* and its period is one of Q1..Q4 or FY; of the observations of one period
\* key the one with the latest end date is kept.  outm is {(fy, fp): item}.
QuarterlyKeep(outm, obs) ==
    IF obs.fy = NoneV \/ obs.fp \notin {"Q1", "Q2", "Q3", "Q4", "FY"} \/ obs.val = NoneV
    THEN outm
    ELSE LET k == <<obs.fy[1], obs.fp>>
         IN  IF \/ k \notin DOMAIN outm
                \/ (obs.end # NoneV /\ outm[k].end # NoneV /\ obs.end[1] > outm[k].end[1])
             THEN DictPut(outm, k, [fy |-> obs.fy, fp |-> obs.fp, val |-> obs.val,
                                    end |-> obs.end])
             ELSE outm

RECURSIVE QuarterlyLoop(_, _)
QuarterlyLoop(arr, outm) ==
    IF arr = <<>> THEN outm ELSE QuarterlyLoop(Tail(arr), QuarterlyKeep(outm, Head(arr)))

\* the tag's series of items {"fy", "fp", "val", "end"}, in period key order
extract_quarterly_usd_facts(cf, tag) ==
    IF DOMAIN cf = {} \/ "facts" \notin DOMAIN cf THEN <<>>
    ELSE LET node == TagNode(cf, tag) IN
         IF DOMAIN node = {} THEN <<>>
         ELSE LET units == DictGet(node, "units", <<>>)
                  unit_key == _pick_unit(tag, units)
              IN  IF unit_key = NoneV \/ unit_key[1] \notin UnitNames(units) THEN <<>>
                  ELSE LET found == QuarterlyLoop(UnitArr(units, unit_key[1]), <<>>)
                           ks == SortedKeys(DOMAIN found)
                       IN  [i \in 1..Len(ks) |-> found[ks[i]]]

(* ------------------------------ ops/run_backfill ----------------------- *)

\* series_to_map of run_backfill: {fy: val}, the key y written (y, "FY"); a
\* later item of the series overwrites an earlier one of the same year.  The
\* items are those extract_annual_usd_facts returns, whose fy and val are set.
RECURSIVE annual_series_to_map(_)
annual_series_to_map(series) ==
    IF series = <<>> THEN <<>>
    ELSE LET x == series[Len(series)]
             rest == annual_series_to_map(SubSeq(series, 1, Len(series) - 1))
         IN  DictPut(rest, <<x.fy, "FY">>, x.val)

\* tag_maps keeps insertion order: a sequence of [tag, map]
TagMapsPut(tag_maps, t, m) ==
    IF \E i \in DOMAIN tag_maps : tag_maps[i].tag = t
    THEN [i \in DOMAIN tag_maps |->
            IF tag_maps[i].tag = t THEN [tag |-> t, map |-> m] ELSE tag_maps[i]]
    ELSE Append(tag_maps, [tag |-> t, map |-> m])

\* tag_maps.get(t, {})
TagMapsGet(tag_maps, t) ==
    IF \E i \in DOMAIN tag_maps : tag_maps[i].tag = t
    THEN tag_maps[CHOOSE i \in DOMAIN tag_maps : tag_maps[i].tag = t].map
    ELSE <<>>

RECURSIVE annual_build_tag_maps(_, _)
annual_build_tag_maps(cf, tags) ==
    IF tags = <<>> THEN <<>>
    ELSE LET t == tags[Len(tags)]
         IN  TagMapsPut(annual_build_tag_maps(cf, SubSeq(tags, 1, Len(tags) - 1)),
                        t, annual_series_to_map(extract_annual_usd_facts(cf, t)))

(* ------------------------------ merge_by_preference -------------------- *)

\* mutant of AllKeys: only the first stored map contributes its keys
AllKeysFirstMapOnly(tag_maps) ==
    IF tag_maps = <<>> THEN {} ELSE DOMAIN Head(tag_maps).map

\* keys = set(); for m in tag_maps.values(): keys |= set(m.keys())
RECURSIVE AllKeys(_)
AllKeys(tag_maps) ==
    IF tag_maps = <<>> THEN {}
    ELSE (DOMAIN Head(tag_maps).map) \cup AllKeys(Tail(tag_maps))

\* mutant of ScanPref: the loop does not break, the last tag of pref wins
RECURSIVE ScanPrefNoBreak(_, _, _, _)
ScanPrefNoBreak(tag_maps, pref, k, i) ==
    IF i > Len(pref) THEN 0
    ELSE LET later == ScanPrefNoBreak(tag_maps, pref, k, i + 1)
         IN  IF later # 0 THEN later
             ELSE IF k \in DOMAIN TagMapsGet(tag_maps, pref[i]) THEN i ELSE 0

\* for t in pref: v = tag_maps.get(t, {}).get(k); if v is not None: ... break
\* the position in pref of the tag taken for k, 0 when no tag of pref has k
RECURSIVE ScanPref(_, _, _, _)
ScanPref(tag_maps, pref, k, i) ==
    IF i > Len(pref) THEN 0
    ELSE IF k \in DOMAIN TagMapsGet(tag_maps, pref[i]) THEN i
    ELSE ScanPref(tag_maps, pref, k, i + 1)

\* for k in sorted(keys): ...   acc is [merged, used]
RECURSIVE MergeLoop(_, _, _, _)
MergeLoop(tag_maps, pref, ks, acc) ==
    IF ks = <<>> THEN acc
    ELSE LET k == Head(ks)
             i == ScanPref(tag_maps, pref, k, 1)
         IN  MergeLoop(tag_maps, pref, Tail(ks),
                IF i = 0 THEN acc
                ELSE [merged |-> DictPut(acc.merged, k, TagMapsGet(tag_maps, pref[i])[k]),
                      used   |-> [acc.used EXCEPT ![pref[i]] = @ + 1]])

\* parts = [f"{t}({used[t]})" for t in pref if used.get(t)]
RECURSIVE LabelParts(_, _)
LabelParts(pref, used) ==
    IF pref = <<>> THEN <<>>
    ELSE (IF used[Head(pref)] # 0 THEN << <<Head(pref), used[Head(pref)]>> >> ELSE <<>>)
         \o LabelParts(Tail(pref), used)

\* returns (label, merged); the label is the list of its "+"-joined parts
merge_by_preference(tag_maps, pref) ==
    LET used0 == [t \in {pref[i] : i \in DOMAIN pref} |-> 0]
        r == MergeLoop(tag_maps, pref, SortedKeys(AllKeys(tag_maps)),
                       [merged |-> <<>>, used |-> used0])
        parts == LabelParts(pref, r.used)
    IN  [label  |-> IF parts # <<>> THEN parts
                    ELSE [i \in 1..(IF pref = <<>> THEN 0 ELSE 1) |-> <<pref[i]>>],
         merged |-> r.merged,
         used   |-> r.used]

\* mutant of add_series: every fiscal year of the run gets a sum, 0.0 + 0.0
\* where neither component reports it
add_series_every_year(a_map, b_map) ==
    [y \in {<<fy, "FY">> : fy \in Years} |-> DictGet(a_map, y, 0) + DictGet(b_map, y, 0)]

\* {y: (a_map.get(y, 0.0) or 0.0) + (b_map.get(y, 0.0) or 0.0) for y in years}
add_series(a_map, b_map) ==
    [y \in (DOMAIN a_map) \cup (DOMAIN b_map) |->
        DictGet(a_map, y, 0) + DictGet(b_map, y, 0)]

\* mutant of UseComponentSum: a tie goes to the component sum
UseComponentSumOnTie(comp_map, agg) ==
    Cardinality(DOMAIN comp_map) >= Cardinality(DOMAIN agg)

\* if len(debt_comp_map) > len(debt_map):
UseComponentSum(comp_map, agg) ==
    Cardinality(DOMAIN comp_map) > Cardinality(DOMAIN agg)

CASH_STI_AGG == <<CashCashEquivalentsAndShortTermInvestments>>
CASH_ONLY == <<CashAndCashEquivalentsAtCarryingValue>>
STI_ONLY == <<ShortTermInvestments, MarketableSecuritiesCurrent>>

DEBT_CURRENT ==
    <<DebtCurrent, LongTermDebtCurrent, CurrentPortionOfLongTermDebt,
      CurrentPortionOfLongTermDebtAndCapitalLeaseObligations, ShortTermBorrowings,
      ShortTermDebt, CommercialPaper>>
DEBT_LT == <<LongTermDebtNoncurrent, LongTermDebt, LongTermBorrowings>>
DEBT_AGG ==
    <<Debt, LongTermDebtAndFinanceLeaseObligations,
      LongTermDebtAndCapitalLeaseObligations, LongTermDebt>>

\* the aggregate list and the two component lists of a summed concept
AggTags(concept) == IF concept = "cash_and_sti" THEN CASH_STI_AGG ELSE DEBT_AGG
FirstTags(concept) == IF concept = "cash_and_sti" THEN CASH_ONLY ELSE DEBT_CURRENT
SecondTags(concept) == IF concept = "cash_and_sti" THEN STI_ONLY ELSE DEBT_LT

(* ------------------------ app/etl/sec_utils: series_to_map ------------- *)

\* for x in series: ... tmp[(fy, fp)] = float(val)      (quarterly mode)
\* An item is a dict whose "fy" and "val" may be None.
QuarterlyTmp(tmp, x) ==
    IF x.fy = NoneV \/ x.fy = Some(0) \/ x.val = NoneV THEN tmp
    ELSE IF x.fp \in {"Q1", "Q2", "Q3", "Q4"} THEN DictPut(tmp, <<x.fy[1], x.fp>>, x.val[1])
    ELSE IF x.fp = "FY" THEN DictPut(tmp, <<x.fy[1], "FY">>, x.val[1])
    ELSE tmp

RECURSIVE QuarterlyTmpLoop(_, _)
QuarterlyTmpLoop(series, tmp) ==
    IF series = <<>> THEN tmp
    ELSE QuarterlyTmpLoop(Tail(series), QuarterlyTmp(tmp, Head(series)))

\* mutant of DerivedQ4: a missing quarter makes the difference undefined, so no
\* Q4 is derived unless Q1, Q2 and Q3 are all present
DerivedQ4NeedsAllQuarters(tmp, fy, outm) ==
    IF <<fy, "FY">> \in DOMAIN tmp /\ \A q \in {"Q1", "Q2", "Q3"} : <<fy, q>> \in DOMAIN tmp
    THEN DictPut(outm, <<fy, "Q4">>,
                 tmp[<<fy, "FY">>] - (tmp[<<fy, "Q1">>] + tmp[<<fy, "Q2">>] + tmp[<<fy, "Q3">>]))
    ELSE outm

\* mutant of DerivedQ4: without an FY value the disclosed Q4 is passed through
DerivedQ4KeepsDisclosed(tmp, fy, outm) ==
    IF <<fy, "FY">> \in DOMAIN tmp
    THEN LET q1 == DictGet(tmp, <<fy, "Q1">>, 0)
             q2 == DictGet(tmp, <<fy, "Q2">>, 0)
             q3 == DictGet(tmp, <<fy, "Q3">>, 0)
         IN  DictPut(outm, <<fy, "Q4">>, tmp[<<fy, "FY">>] - (q1 + q2 + q3))
    ELSE IF <<fy, "Q4">> \in DOMAIN tmp THEN DictPut(outm, <<fy, "Q4">>, tmp[<<fy, "Q4">>])
    ELSE outm

\* if derive_q4: fy_val = tmp.get((fy, "FY")); if fy_val is not None: ...
DerivedQ4(tmp, fy, outm) ==
    IF <<fy, "FY">> \in DOMAIN tmp
    THEN LET q1 == DictGet(tmp, <<fy, "Q1">>, 0)
             q2 == DictGet(tmp, <<fy, "Q2">>, 0)
             q3 == DictGet(tmp, <<fy, "Q3">>, 0)
         IN  DictPut(outm, <<fy, "Q4">>, tmp[<<fy, "FY">>] - (q1 + q2 + q3))
    ELSE outm

\* else: the disclosed Q4, or else the FY value, is written as Q4
DirectQ4(tmp, fy, outm) ==
    IF <<fy, "Q4">> \in DOMAIN tmp THEN DictPut(outm, <<fy, "Q4">>, tmp[<<fy, "Q4">>])
    ELSE IF <<fy, "FY">> \in DOMAIN tmp THEN DictPut(outm, <<fy, "Q4">>, tmp[<<fy, "FY">>])
    ELSE outm

\* mutant of PassQuarters: the FY scaffolding is copied to the output as well
PassQuartersAndFY(tmp, fy, outm) ==
    LET have == {q \in {"Q1", "Q2", "Q3", "FY"} : <<fy, q>> \in DOMAIN tmp}
    IN  [k \in (DOMAIN outm) \cup {<<fy, q>> : q \in have} |->
            IF k[1] = fy /\ k[2] \in have THEN tmp[k] ELSE outm[k]]

\* for q in ("Q1", "Q2", "Q3"): if (fy, q) in tmp: out[(fy, q)] = tmp[(fy, q)]
PassQuarters(tmp, fy, outm) ==
    LET have == {q \in {"Q1", "Q2", "Q3"} : <<fy, q>> \in DOMAIN tmp}
    IN  [k \in (DOMAIN outm) \cup {<<fy, q>> : q \in have} |->
            IF k[1] = fy /\ k[2] \in have THEN tmp[k] ELSE outm[k]]

\* mutant of Q4Step: a disclosed Q4 is preferred to the derivation
Q4StepPrefersDisclosed(tmp, fy, derive, outm) ==
    IF derive /\ <<fy, "Q4">> \notin DOMAIN tmp
    THEN DerivedQ4(tmp, fy, outm) ELSE DirectQ4(tmp, fy, outm)

Q4Step(tmp, fy, derive, outm) ==
    IF derive THEN DerivedQ4(tmp, fy, outm) ELSE DirectQ4(tmp, fy, outm)

\* for fy in {k[0] for k in tmp.keys()}: ...   (the years in any order)
RECURSIVE QuarterlyYearLoop(_, _, _, _)
QuarterlyYearLoop(tmp, fys, derive, outm) ==
    IF fys = {} THEN outm
    ELSE LET fy == CHOOSE y \in fys : TRUE
         IN  QuarterlyYearLoop(tmp, fys \ {fy}, derive,
                               PassQuarters(tmp, fy, Q4Step(tmp, fy, derive, outm)))

\* annual mode: for x in series: if x.get("fy") and x.get("val") is not None
\* (the items are those of extract_annual_usd_facts)
RECURSIVE AnnualModeLoop(_, _)
AnnualModeLoop(series, outm) ==
    IF series = <<>> THEN outm
    ELSE LET x == Head(series)
         IN  AnnualModeLoop(Tail(series),
                IF x.fy # 0 THEN DictPut(outm, <<x.fy, "FY">>, x.val) ELSE outm)

series_to_map(series, period_type, derive) ==
    IF period_type = "annual" THEN AnnualModeLoop(series, <<>>)
    ELSE LET tmp == QuarterlyTmpLoop(series, <<>>)
         IN  QuarterlyYearLoop(tmp, {k[1] : k \in DOMAIN tmp}, derive, <<>>)

(* --------------- app/etl/sec_utils: the unified helper ----------------- *)

REV_TAGS ==
    <<RevenueFromContractWithCustomerExcludingAssessedTax, SalesRevenueNet, Revenues,
      SalesRevenueGoodsNet, RevenueFromContractWithCustomerIncludingAssessedTax,
      TotalRevenue, OperatingRevenue, RevenuesNetOfInterestExpense>>

AP_TAGS == <<AccountsPayableCurrent>>

\* the entries of FALLBACK_KEYWORDS of the two concepts modelled
FALLBACK_KEYWORDS ==
    [revenue |-> <<Kw_revenue, Kw_sales>>, accounts_payable |-> <<Kw_accounts, Kw_payable>>]

extractor(period_type, cf, tag) ==
    IF period_type = "annual" THEN extract_annual_usd_facts(cf, tag)
    ELSE extract_quarterly_usd_facts(cf, tag)

\* for t in tags: out[t] = series_to_map(extractor(cf, t), period_type, derive_q4)
RECURSIVE build_tag_maps(_, _, _, _)
build_tag_maps(cf, tags, period_type, derive) ==
    IF tags = <<>> THEN <<>>
    ELSE LET t == tags[Len(tags)]
         IN  TagMapsPut(build_tag_maps(cf, SubSeq(tags, 1, Len(tags) - 1), period_type, derive),
                        t, series_to_map(extractor(period_type, cf, t), period_type, derive))

\* mutant of MatchesAll: one keyword in the tag name is enough
MatchesAny(t, required_words) ==
    \E i \in DOMAIN required_words : Contains(LowerStr(t), LowerStr(required_words[i]))

\* all(w.lower() in t_lower for w in required_words)
MatchesAll(t, required_words) ==
    \A i \in DOMAIN required_words : Contains(LowerStr(t), LowerStr(required_words[i]))

\* for t in tags: if all(...): series = extractor(cf, t); if series: return ...
RECURSIVE KeywordLoop(_, _, _, _, _)
KeywordLoop(cf, tags, required_words, period_type, derive) ==
    IF tags = <<>> THEN <<>>
    ELSE LET t == Head(tags)
             found == extractor(period_type, cf, t)
         IN  IF MatchesAll(t, required_words) /\ found # <<>>
             THEN series_to_map(found, period_type, derive)
             ELSE KeywordLoop(cf, Tail(tags), required_words, period_type, derive)

keyword_fallback(cf, required_words, period_type, derive) ==
    KeywordLoop(cf, list_available_tags(cf), required_words, period_type, derive)

\* mutant of SetDefaults: the fallback is used only when the merge found nothing
SetDefaultsOnlyIfEmpty(outm, fallback) == IF outm = <<>> THEN fallback ELSE outm

\* mutant of SetDefaults: out.update(fallback_map)
SetDefaultsOverwrites(outm, fallback) ==
    [k \in (DOMAIN outm) \cup (DOMAIN fallback) |->
        IF k \in DOMAIN fallback THEN fallback[k] ELSE outm[k]]

\* for key, value in fallback_map.items(): out.setdefault(key, value)
SetDefaults(outm, fallback) ==
    [k \in (DOMAIN outm) \cup (DOMAIN fallback) |->
        IF k \in DOMAIN outm THEN outm[k] ELSE fallback[k]]

(* ------------------------------ documents ------------------------------ *)

\* The companyfacts document that discloses, in USD, the FY value f[<<t, y>>]
\* for every (tag, year) of DOMAIN f, one observation each, in year order.
GenDoc(f) ==
    LET S == DOMAIN f
        tags == {p[1] : p \in S}
        arrOf(t) ==
            LET ys == SortedInts({p[2] : p \in {q \in S : q[1] = t}})
            IN  [i \in 1..Len(ys) |->
                    [fy |-> Some(ys[i]), fp |-> "FY", end |-> Some(ys[i]),
                     val |-> Some(f[<<t, ys[i]>>])]]
    IN  [facts |-> [g \in {"us-gaap"} |->
            [t \in tags |-> [units |-> << [unit |-> "USD", arr |-> arrOf(t)] >>]]]]

\* the disclosures of at most MaxFacts facts over the tags U
FactSets(U) ==
    UNION {[S -> Vals] : S \in {T \in SUBSET (U \X Years) : Cardinality(T) <= MaxFacts}}

\* the lists without repetition over U, the shape of every catalog list
PrefLists(U) ==
    {s \in UNION {[1..n -> U] : n \in 1..Cardinality(U)} :
        \A i, j \in DOMAIN s : i # j => s[i] # s[j]}

NI_TAGS == <<NetIncomeLoss, ProfitLoss, NetEarnings>>

TagsOf(lst) == {lst[i] : i \in DOMAIN lst}

(* --------- app/etl/sec_fetch_companyfacts: fetch_companyfacts ---------- *)

\* Durations are in tenths of a second.
\* delay = 0.5  # base backoff
BaseDelay == 5

\* min(delay * 2, 8.0)
DelayCap == 80

\* def fetch_companyfacts(cik, max_retries: int = 4, timeout = 30)
DefaultMaxRetries == 4

\* the exceptions of _session.get that the except clause catches
TransientExceptions ==
    {"ConnectionError", "ReadTimeout", "ChunkedEncodingError", "ProtocolError",
     "RemoteDisconnected"}

\* if r.status_code in (429, 500, 502, 503, 504)
RetryStatus == {429, 500, 502, 503, 504}

DigitChars == <<"0", "1", "2", "3", "4", "5", "6", "7", "8", "9">>

\* str.isdigit(), for a string as its character sequence
isdigit(s) ==
    /\ Len(s) > 0
    /\ \A i \in 1..Len(s) : \E d \in 1..Len(DigitChars) : DigitChars[d] = s[i]

DigitOf(c) == (CHOOSE d \in 1..Len(DigitChars) : DigitChars[d] = c) - 1

\* the number a string of digits denotes
RECURSIVE IntOf(_)
IntOf(s) ==
    IF Len(s) = 0 THEN 0
    ELSE 10 * IntOf(SubSeq(s, 1, Len(s) - 1)) + DigitOf(s[Len(s)])

\* float(ra), a number of seconds, in tenths of a second
float(s) == 10 * IntOf(s)

\* delay = min(delay * 2, 8.0)
NextDelay(d) == IF d * 2 < DelayCap THEN d * 2 ELSE DelayCap

\* sleep_s = float(ra) if ra and ra.isdigit() else delay
\* ra is r.headers.get("Retry-After"): None or a string
SleepForIgnoresHint(ra, d) == d
SleepFor(ra, d) ==
    IF Len(ra) > 0 /\ Len(ra[1]) > 0 /\ isdigit(ra[1]) THEN float(ra[1]) ELSE d

\* r.json(): the parsed body, or an exception when the body is not JSON
json(body) ==
    IF body.valid THEN [raised |-> "", value |-> body.value]
    ELSE [raised |-> "JSONDecodeError", value |-> <<>>]

\* what one pass of the loop body does: the sleeps it makes, the delay it
\* leaves, and the way the call ends in it, if it does
Continue(sleeps, d) ==
    [done |-> FALSE, slept |-> sleeps, delay |-> d, raised |-> "", value |-> <<>>]
Return(v, d) ==
    [done |-> TRUE, slept |-> <<>>, delay |-> d, raised |-> "", value |-> v]
Raise(exc, d) ==
    [done |-> TRUE, slept |-> <<>>, delay |-> d, raised |-> exc, value |-> <<>>]

\* if r.status_code == 404: return {}
Status404Retries(d) == Continue(<<d>>, NextDelay(d))
Status404(d) == Return(<<>>, d)

\* r.raise_for_status(): HTTPError for 4xx and 5xx, nothing otherwise
raise_for_status(status_code, d) ==
    IF status_code >= 400 /\ status_code < 600 THEN Raise("HTTPError", d)
    ELSE Continue(<<>>, d)

Iteration(resp, d) ==
    IF resp.exc # "" THEN
        IF resp.exc \in TransientExceptions
        THEN Continue(<<d>>, NextDelay(d))
        ELSE Raise(resp.exc, d)
    ELSE IF resp.status_code = 200 THEN
        LET j == json(resp.body)
        IN  IF j.raised = "" THEN Return(j.value, d) ELSE Raise(j.raised, d)
    ELSE IF resp.status_code = 404 THEN Status404(d)
    ELSE IF resp.status_code \in RetryStatus THEN
        Continue(<<SleepFor(resp.retry_after, d)>>, NextDelay(d))
    ELSE raise_for_status(resp.status_code, d)

\* for attempt in range(max_retries + 1)
AttemptsOneMore(m) == m + 2
Attempts(m) == m + 1

\* # give up
\* return {}
GiveUpRaises == [raised |-> "RetryError", value |-> <<>>]
GiveUp == [raised |-> "", value |-> <<>>]

\* the call on a network that answers the i-th request with script[i]
RECURSIVE FetchLoop(_, _, _, _)
FetchLoop(script, i, d, m) ==
    IF i >= Attempts(m) THEN GiveUp
    ELSE LET it == Iteration(script[i + 1], d)
         IN  IF it.done THEN [raised |-> it.raised, value |-> it.value]
             ELSE FetchLoop(script, i + 1, it.delay, m)

fetch_companyfacts(script, m) == FetchLoop(script, 0, BaseDelay, m)

(* ------------------------------- state --------------------------------- *)

VARIABLES
    pc,         \* position of the run being modelled
    cf,         \* the fetched companyfacts document
    pref,       \* the preference list handed to build_tag_maps and merge_by_preference
    tag_maps,   \* build_tag_maps(cf, pref)
    label,      \* merge_by_preference(...)[0]
    merged,     \* merge_by_preference(...)[1]
    series,     \* a per-tag series: the extractor's result, series_to_map's input
    derive_q4,  \* series_to_map's derive_q4
    out,        \* the period map returned
    concept,    \* "cash_and_sti" or "total_debt" (backfill_company, steps 5 and 6)
    agg_label,  \* debt_label, cash_sti_label as merged from the aggregate tags
    agg_map,    \* debt_map, cash_sti_map as merged from the aggregate tags
    cur_label,  \* cur_label, cash_only_label
    cur_map,    \* cur_map, cash_only_map
    lt_label,   \* lt_label, sti_only_label
    lt_map,     \* lt_map, sti_only_map
    debt_comp_map,  \* debt_comp_map, comp_sum_map
    debt_label, \* debt_label, cash_sti_label after the choice
    debt_map,   \* debt_map, cash_sti_map after the choice
    keywords,   \* get_series_with_fallback's keywords
    fallback_map,   \* keyword_fallback(cf, keywords, ...)
    max_retries,    \* fetch_companyfacts's max_retries
    attempt,    \* passes of fetch_companyfacts's loop begun so far
    delay,      \* fetch_companyfacts's delay, in tenths of a second
    slept,      \* the time.sleep calls made, in order, in tenths of a second
    wire,       \* what _session.get did, request by request
    fetched,    \* None while the call runs, then how it ended
    job,        \* "annual" (ops/run_backfill) or "quarterly" (ops/run_backfill_quarterly)
    companies,  \* main's companies, in ticker order
    cursor,     \* the position in companies of the company main's loop is at
    table,      \* the rows of financials_annual resp. financials_quarterly
    total,      \* main's total
    crash,      \* the exception that left main, "" if none
    log,        \* per company processed: what it was served and what came of it
    script,     \* what the SEC endpoint answers to a company run, request by request
    ext_rows,   \* what fetch_yahoo_annual_variants yields in a company run
    maps,       \* the concept series of the last company run
    batch,      \* the values the last company run upserted, in order
    rows_written,   \* None, or the count the last company run returned
    first,       \* None, or the batch, table and count of the first of two runs
    plan,       \* plan["companies"] handed to _resolve_companies_from_plan
    requested,  \* the candidates kept by the filter
    nth,        \* the number of candidates the loop has taken
    outcomes,   \* what _resolve_company_candidate returned, call by call
    resolved,   \* the companies resolved so far
    unresolved, \* the candidates left unresolved so far
    seen_ids,   \* the ids of the companies in resolved
    diagnostics, \* one record per decision taken
    pick_tag, \* _pick_unit's tag
    pick_units, \* _pick_unit's units, in the document's order
    unit_key, \* None before the call, then what _pick_unit returned
    ticker, \* the ticker the adapter is asked for
    exchange_hint, \* the company's exchange, None or a string
    yahoo, \* the provider: the rows it has for each symbol
    candidates, \* the candidate list of the call
    cand_i, \* the position of the loop in candidates
    tried, \* the symbols requested so far
    asked, \* the requests made, in order
    variant_rows, \* the rows returned
    session_tbl, \* the table as the session's open transaction sees it
    todo, \* the rows of the current run not yet executed
    aborted, \* the runs aborted - company and rows executed
    stored, \* the company's stored quarterly periods
    latest_stored, \* the latest stored period or None
    sec_latest, \* the latest period of the document or None
    refreshed \* whether the backfills ran

mergeVars == <<pref, tag_maps, label, merged>>
extractVars == <<series>>
quarterVars == <<derive_q4, out>>
sumVars == <<concept, agg_label, agg_map, cur_label, cur_map, lt_label, lt_map,
             debt_comp_map, debt_label, debt_map>>

fallbackVars == <<keywords, fallback_map>>

fetchVars == <<max_retries, attempt, delay, slept, wire, fetched>>
batchVars == <<job, companies, cursor, table, total, crash, log, script, ext_rows, maps,
               batch, rows_written, first>>
resolverVars == <<plan, requested, nth, outcomes, resolved, unresolved, seen_ids, diagnostics>>
unitVars == <<pick_tag, pick_units, unit_key>>
variantVars == <<ticker, exchange_hint, yahoo, candidates, cand_i, tried, asked, variant_rows>>
txnVars == <<session_tbl, todo, aborted>>
refreshVars == <<stored, latest_stored, sec_latest, refreshed>>
opsVars == <<fetchVars, batchVars, resolverVars, unitVars, variantVars, txnVars, refreshVars>>
engineVars == <<cf, mergeVars, extractVars, quarterVars, sumVars, fallbackVars>>

vars == <<pc, engineVars, opsVars>>

\* the variables a run does not touch keep their values of construction
mergeIdle == pref = <<>> /\ tag_maps = <<>> /\ label = <<>> /\ merged = <<>>
extractIdle == series = <<>>
quarterIdle == derive_q4 = TRUE /\ out = <<>>
sumIdle ==
    /\ concept = "" /\ agg_label = <<>> /\ agg_map = <<>> /\ cur_label = <<>>
    /\ cur_map = <<>> /\ lt_label = <<>> /\ lt_map = <<>> /\ debt_comp_map = <<>>
    /\ debt_label = <<>> /\ debt_map = <<>>

fallbackIdle == keywords = <<>> /\ fallback_map = <<>>
fetchIdle ==
    /\ max_retries = 0 /\ attempt = 0 /\ delay = 0 /\ slept = <<>> /\ wire = <<>>
    /\ fetched = <<>>
batchIdle ==
    /\ job = "" /\ companies = <<>> /\ cursor = 0 /\ table = <<>> /\ total = 0
    /\ crash = "" /\ log = <<>> /\ script = <<>> /\ ext_rows = <<>> /\ maps = <<>>
    /\ batch = <<>> /\ rows_written = <<>> /\ first = <<>>
resolverIdle ==
    /\ plan = <<>> /\ requested = <<>> /\ nth = 0 /\ outcomes = <<>> /\ resolved = <<>> /\ unresolved = <<>>
    /\ seen_ids = {} /\ diagnostics = <<>>
unitIdle == pick_tag = <<>> /\ pick_units = <<>> /\ unit_key = <<>>
variantIdle == ticker = <<>> /\ exchange_hint = <<>> /\ yahoo = <<>> /\ candidates = <<>> /\ cand_i = 0 /\ tried = {} /\ asked = <<>> /\ variant_rows = <<>>
txnIdle == session_tbl = <<>> /\ todo = <<>> /\ aborted = <<>>
refreshIdle == stored = {} /\ latest_stored = <<>> /\ sec_latest = <<>> /\ refreshed = FALSE
opsIdle == fetchIdle /\ batchIdle /\ resolverIdle /\ unitIdle /\ variantIdle /\ txnIdle /\ refreshIdle
engineIdle ==
    /\ cf = <<>> /\ mergeIdle /\ extractIdle /\ quarterIdle /\ sumIdle /\ fallbackIdle

outsideMerge == <<extractVars, quarterVars, sumVars, fallbackVars, opsVars>>
outsideExtract == <<mergeVars, quarterVars, sumVars, fallbackVars, opsVars>>
outsideQuarter == <<cf, mergeVars, sumVars, fallbackVars, opsVars>>
outsideSum == <<mergeVars, extractVars, quarterVars, fallbackVars, opsVars>>
outsideFallback == <<extractVars, sumVars, opsVars>>
outsideFetch == <<engineVars, batchVars, resolverVars, unitVars, variantVars, txnVars, refreshVars>>
outsideBatch == <<engineVars, fetchVars, resolverVars, unitVars, variantVars, txnVars, refreshVars>>
outsideResolver == <<engineVars, fetchVars, batchVars, unitVars, variantVars, txnVars, refreshVars>>
outsideUnit == <<engineVars, fetchVars, batchVars, resolverVars, variantVars, txnVars, refreshVars>>
outsideVariant == <<engineVars, fetchVars, batchVars, resolverVars, unitVars, txnVars, refreshVars>>
outsideTxn == <<engineVars, fetchVars, batchVars, resolverVars, unitVars, variantVars, refreshVars>>
outsideRefresh == <<engineVars, fetchVars, batchVars, resolverVars, unitVars, variantVars, txnVars>>

(* ---------------- merge-by-preference of one concept (annual) ---------- *)

MergeInit ==
    /\ pc = "start"
    /\ cf \in {GenDoc(f) : f \in FactSets(TagsOf(NI_TAGS))}
    /\ pref \in PrefLists(TagsOf(NI_TAGS))
    /\ tag_maps = <<>>
    /\ label = <<>>
    /\ merged = <<>>
    /\ extractIdle /\ quarterIdle /\ sumIdle /\ fallbackIdle /\ opsIdle

\* build_tag_maps(cf, pref)
BuildTagMaps ==
    /\ pc = "start"
    /\ tag_maps' = annual_build_tag_maps(cf, pref)
    /\ pc' = "built"
    /\ UNCHANGED <<cf, pref, label, merged, outsideMerge>>

\* merge_by_preference(tag_maps, pref)
MergeByPreference ==
    /\ pc = "built"
    /\ LET r == merge_by_preference(tag_maps, pref)
       IN  label' = r.label /\ merged' = r.merged
    /\ pc' = "merged"
    /\ UNCHANGED <<cf, pref, tag_maps, outsideMerge>>

MergeNext == BuildTagMaps \/ MergeByPreference

SpecMerge == MergeInit /\ [][MergeNext]_vars

(* ------------------------------ C1, C2 --------------------------------- *)

\* the series of tag t as handed to the merge
SeriesOf(t) == TagMapsGet(tag_maps, t)

\* the positions of pref whose tag has a value at k
Holders(k) == {i \in DOMAIN pref : k \in DOMAIN SeriesOf(pref[i])}

\* tag_maps stored in another order
Reorderings(tm) ==
    {[i \in DOMAIN tm |-> tm[p[i]]] :
        p \in {q \in [DOMAIN tm -> DOMAIN tm] : \A i, j \in DOMAIN tm : i # j => q[i] # q[j]}}

\* C1 as stated: whenever tag A precedes tag B in the preference list and both
\* series have a value at P, the merged series at P equals A's value.
C1_AsStated ==
    pc = "merged" =>
        \A i, j \in DOMAIN pref : i < j =>
            \A k \in (DOMAIN SeriesOf(pref[i])) \cap (DOMAIN SeriesOf(pref[j])) :
                k \in DOMAIN merged /\ merged[k] = SeriesOf(pref[i])[k]

\* C1 (amended): whenever tag A precedes tag B in the preference list and both
\* series have a value at P, the merged series at P is the value of the
\* earliest tag of the list that has a value at P (A's value when no tag before
\* A has one), that tag is never B, and the result is the same for every order
\* in which the per-tag maps are stored in tag_maps.
C1_EarliestTagWins ==
    pc = "merged" =>
        /\ \A i, j \in DOMAIN pref : i < j =>
              \A k \in (DOMAIN SeriesOf(pref[i])) \cap (DOMAIN SeriesOf(pref[j])) :
                  LET e == MinOf(Holders(k))
                  IN  /\ k \in DOMAIN merged
                      /\ merged[k] = SeriesOf(pref[e])[k]
                      /\ e <= i /\ e # j
                      /\ (Holders(k) \cap 1..(i - 1) = {} => merged[k] = SeriesOf(pref[i])[k])
        /\ \A tm \in Reorderings(tag_maps) : merge_by_preference(tm, pref).merged = merged

\* C1 witness: two tags of the list disagree at a period and the merge has
\* taken the earlier one's value.
C1_Witness ==
    /\ pc = "merged"
    /\ \E i, j \in DOMAIN pref : i < j /\
          \E k \in (DOMAIN SeriesOf(pref[i])) \cap (DOMAIN SeriesOf(pref[j])) :
              /\ SeriesOf(pref[i])[k] # SeriesOf(pref[j])[k]
              /\ Holders(k) \cap 1..(i - 1) = {}
              /\ merged[k] = SeriesOf(pref[i])[k]

\* C2: the key set of the merged series is the union of the key sets of the
\* input series, and at each key the value is that of the first tag in
\* preference order whose series has the key: one tag's value, never a blend.
C2_UnionFirstTag ==
    pc = "merged" =>
        /\ DOMAIN merged = UNION {DOMAIN tag_maps[i].map : i \in DOMAIN tag_maps}
        /\ \A k \in DOMAIN merged :
              /\ Holders(k) # {}
              /\ merged[k] = SeriesOf(pref[MinOf(Holders(k))])[k]
              /\ \E i \in DOMAIN tag_maps :
                    k \in DOMAIN tag_maps[i].map /\ merged[k] = tag_maps[i].map[k]

\* C2 witness: A = {FY2022: 100}, B = {FY2022: 90, FY2021: 80}, A first, merged
\* to {FY2022: 100, FY2021: 80}.
C2_Witness ==
    /\ pc = "merged"
    /\ Len(pref) >= 2
    /\ SeriesOf(pref[1]) = [k \in {<<2022, "FY">>} |-> 100]
    /\ SeriesOf(pref[2]) = [k \in {<<2022, "FY">>, <<2021, "FY">>} |->
                               IF k[1] = 2022 THEN 90 ELSE 80]
    /\ merged = [k \in {<<2022, "FY">>, <<2021, "FY">>} |->
                               IF k[1] = 2022 THEN 100 ELSE 80]

(* ------------- extract_annual_usd_facts of one tag (restatements) ------ *)

\* the largest number of observations reported for the tag
MaxObs == 3

\* period end dates, in the order of their ISO strings
Dates == {20220201, 20220315}

\* What the i-th observation of the tag's unit may be.  Its value 10 * i tells
\* the observations apart.  Besides the annual observations, with or without
\* an end date, there are the three kinds the loop skips.
ObsAt(i) ==
    {[fy |-> Some(y), fp |-> "FY", end |-> en, val |-> Some(10 * i)] :
        y \in Years, en \in {NoneV} \cup {Some(d) : d \in Dates}}
    \cup {[fy |-> NoneV, fp |-> "FY", end |-> Some(20220315), val |-> Some(10 * i)],
          [fy |-> Some(2021), fp |-> "Q1", end |-> Some(20220315), val |-> Some(10 * i)],
          [fy |-> Some(2021), fp |-> "FY", end |-> Some(20220315), val |-> NoneV]}

ObsLists ==
    UNION {{s \in [1..n -> UNION {ObsAt(i) : i \in 1..n}] : \A i \in 1..n : s[i] \in ObsAt(i)} :
             n \in 0..MaxObs}

DocOfObs(tag, arr) ==
    [facts |-> [g \in {"us-gaap"} |->
        [t \in {tag} |-> [units |-> << [unit |-> "USD", arr |-> arr] >>]]]]

ExtractInit ==
    /\ pc = "start"
    /\ cf \in {DocOfObs(NetIncomeLoss, arr) : arr \in ObsLists}
    /\ series = <<>>
    /\ mergeIdle /\ quarterIdle /\ sumIdle /\ fallbackIdle /\ opsIdle

\* series = extract_annual_usd_facts(cf, "NetIncomeLoss")
ExtractAnnual ==
    /\ pc = "start"
    /\ series' = extract_annual_usd_facts(cf, NetIncomeLoss)
    /\ pc' = "extracted"
    /\ UNCHANGED <<cf, outsideExtract>>

ExtractNext == ExtractAnnual

SpecExtract == ExtractInit /\ [][ExtractNext]_vars

(* -------------------------------- C10 ---------------------------------- *)

\* the observations of the tag, in document order
Reported == cf.facts["us-gaap"][NetIncomeLoss].units[1].arr

\* the positions of the annual observations of fiscal year y
Annual(y) ==
    {i \in DOMAIN Reported :
        Reported[i].fy = Some(y) /\ Reported[i].fp = "FY" /\ Reported[i].val # NoneV}

\* the first encountered among the observations of Q with the latest end date
LatestFirstSeen(Q) ==
    MinOf({i \in Q : \A j \in Q : Reported[j].end[1] <= Reported[i].end[1]})

\* C10: extract_annual_usd_facts keeps exactly one observation per fiscal year
\* of the tag: of the observations of one fiscal year, each with its period end
\* date, the one with the latest end date in whichever order they come, and the
\* first encountered among equal end dates; the kept value is one observation's
\* value, never a combination.
C10_LatestEndKept ==
    pc = "extracted" =>
        /\ {series[n].fy : n \in DOMAIN series} = {y \in Years : Annual(y) # {}}
        /\ \A m, n \in DOMAIN series : m < n => series[m].fy < series[n].fy
        /\ \A n \in DOMAIN series :
              LET Q == Annual(series[n].fy)
              IN  /\ \E i \in Q : /\ series[n].val = Reported[i].val[1]
                                   /\ series[n].end = Reported[i].end
                  /\ (\A i \in Q : Reported[i].end # NoneV) =>
                        /\ series[n].val = Reported[LatestFirstSeen(Q)].val[1]
                        /\ series[n].end = Reported[LatestFirstSeen(Q)].end

\* C10 witness: fiscal year 2021 is reported three times, the restatement
\* (end 2022-03-15) first, then the original (end 2022-02-01), then once more
\* with end 2022-03-15; the first observation is the one kept.
C10_Witness ==
    /\ pc = "extracted"
    /\ Len(Reported) = 3
    /\ Annual(2021) = {1, 2, 3}
    /\ Reported[1].end = Some(20220315)
    /\ Reported[2].end = Some(20220201)
    /\ Reported[3].end = Some(20220315)
    /\ series = << [fy |-> 2021, val |-> 10, end |-> Some(20220315)] >>

(* ---------------- series_to_map in quarterly mode ---------------------- *)

\* the largest number of observations of a generated quarterly series
MaxQuarterFacts == 5

Periods == {"Q1", "Q2", "Q3", "Q4", "FY"}

\* The value reported for period p of year y: Q1 10, Q2 12, Q3 11 and FY 40
\* for 2021, a disclosed Q4 of 8, and twice that for 2022.
Reported2021 == [Q1 |-> 10, Q2 |-> 12, Q3 |-> 11, Q4 |-> 8, FY |-> 40]

QuarterValue(y, p) == Reported2021[p] * (y - 2020)

\* the series that reports the periods K, in key order
SeriesOfKeys(K) ==
    LET ks == SortedKeys(K)
    IN  [i \in 1..Len(ks) |->
            [fy |-> Some(ks[i][1]), fp |-> ks[i][2],
             val |-> Some(QuarterValue(ks[i][1], ks[i][2]))]]

\* items series_to_map skips: no fiscal year, no value, a period it does not know
SkippedItems ==
    {[fy |-> NoneV, fp |-> "FY", val |-> Some(40)],
     [fy |-> Some(2021), fp |-> "FY", val |-> NoneV],
     [fy |-> Some(2021), fp |-> "H1", val |-> Some(22)]}

QuarterlyInputs ==
    LET plain == {SeriesOfKeys(K) :
                    K \in {T \in SUBSET (Years \X Periods) : Cardinality(T) <= MaxQuarterFacts}}
    IN  plain \cup {Append(s, x) : s \in plain, x \in SkippedItems}

QuarterInit ==
    /\ pc = "start"
    /\ cf = <<>>
    /\ series \in QuarterlyInputs
    /\ derive_q4 \in BOOLEAN
    /\ out = <<>>
    /\ mergeIdle /\ sumIdle /\ fallbackIdle /\ opsIdle

\* out = series_to_map(series, "quarterly", derive_q4)
SeriesToMap ==
    /\ pc = "start"
    /\ out' = series_to_map(series, "quarterly", derive_q4)
    /\ pc' = "mapped"
    /\ UNCHANGED <<series, derive_q4, outsideQuarter>>

QuarterNext == SeriesToMap

SpecQuarter == QuarterInit /\ [][QuarterNext]_vars

(* ---------------------------- C3, C4, C5 ------------------------------- *)

\* the input reports a value for period p of fiscal year y
Has(y, p) ==
    \E i \in DOMAIN series :
        series[i].fy = Some(y) /\ series[i].fp = p /\ series[i].val # NoneV

\* that value, 0 when there is none
InputOr0(y, p) ==
    IF Has(y, p)
    THEN series[CHOOSE i \in DOMAIN series :
            series[i].fy = Some(y) /\ series[i].fp = p /\ series[i].val # NoneV].val[1]
    ELSE 0

\* C3: with derive_q4, for every fiscal year y with an FY value in the input
\* the output Q4(y) is FY(y) - (Q1(y) + Q2(y) + Q3(y)), a missing quarter
\* counted as 0.
C3_Q4IsFYMinusQuarters ==
    (pc = "mapped" /\ derive_q4) =>
        \A y \in Years : Has(y, "FY") =>
            /\ <<y, "Q4">> \in DOMAIN out
            /\ out[<<y, "Q4">>] =
                 InputOr0(y, "FY") - (InputOr0(y, "Q1") + InputOr0(y, "Q2") + InputOr0(y, "Q3"))

\* C3 witness: {Q1: 10, Q2: 12, Q3: 11, FY: 40} gives Q4 = 7, and the other
\* year, with FY and Q1 only, gets a Q4 too.
C3_Witness ==
    /\ pc = "mapped" /\ derive_q4
    /\ \A p \in {"Q1", "Q2", "Q3", "FY"} : Has(2021, p)
    /\ Has(2022, "FY") /\ ~Has(2022, "Q2") /\ ~Has(2022, "Q3")
    /\ out[<<2021, "Q4">>] = 7
    /\ <<2022, "Q4">> \in DOMAIN out

\* C4: in quarterly mode the returned map has only Q1..Q4 keys, never an FY
\* key, for either value of derive_q4, and the Q1..Q3 values of the input are
\* in it unchanged.
C4_OnlyQuarterKeys ==
    pc = "mapped" =>
        /\ \A k \in DOMAIN out : k[2] \in {"Q1", "Q2", "Q3", "Q4"}
        /\ \A y \in Years, q \in {"Q1", "Q2", "Q3"} :
              Has(y, q) => (<<y, q>> \in DOMAIN out /\ out[<<y, q>>] = InputOr0(y, q))

\* C4 witness: the input reports an FY value beside a quarter and the stock
\* mode (derive_q4 = False) has mapped it.
C4_Witness ==
    /\ pc = "mapped" /\ ~derive_q4
    /\ Has(2021, "FY") /\ Has(2021, "Q1")
    /\ out[<<2021, "Q1">>] = 10
    /\ <<2021, "FY">> \notin DOMAIN out

\* C5: with derive_q4, Q4(y) is in the output only if the input has an FY
\* value for y.
C5_Q4OnlyWithFY ==
    (pc = "mapped" /\ derive_q4) =>
        \A k \in DOMAIN out : k[2] = "Q4" => Has(k[1], "FY")

\* C5 witness: a year with quarters, a disclosed Q4 even, and no FY value has
\* no Q4 in the output, while the other year has its derived Q4.
C5_Witness ==
    /\ pc = "mapped" /\ derive_q4
    /\ Has(2021, "Q1") /\ Has(2021, "Q4") /\ ~Has(2021, "FY")
    /\ <<2021, "Q1">> \in DOMAIN out /\ <<2021, "Q4">> \notin DOMAIN out
    /\ Has(2022, "FY") /\ <<2022, "Q4">> \in DOMAIN out

(* ------- backfill_company, steps 5 and 6: aggregate or component sum ---- *)

\* the tags a generated document may report for the concept: the first tag of
\* each of its three lists, and a second tag of one component list
ReportedTags(c) ==
    IF c = "cash_and_sti"
    THEN {CashCashEquivalentsAndShortTermInvestments, CashAndCashEquivalentsAtCarryingValue,
          ShortTermInvestments, MarketableSecuritiesCurrent}
    ELSE {Debt, DebtCurrent, LongTermDebtNoncurrent, LongTermDebt}

SumInit ==
    /\ pc = "start"
    /\ concept \in {"cash_and_sti", "total_debt"}
    /\ cf \in {GenDoc(f) : f \in FactSets(ReportedTags(concept))}
    /\ agg_label = <<>> /\ agg_map = <<>> /\ cur_label = <<>> /\ cur_map = <<>>
    /\ lt_label = <<>> /\ lt_map = <<>> /\ debt_comp_map = <<>>
    /\ debt_label = <<>> /\ debt_map = <<>>
    /\ mergeIdle /\ extractIdle /\ quarterIdle /\ fallbackIdle /\ opsIdle

\* debt_label, debt_map = merge_by_preference(build_tag_maps(cf, DEBT_AGG), DEBT_AGG)
MergeAggregate ==
    /\ pc = "start"
    /\ LET r == merge_by_preference(annual_build_tag_maps(cf, AggTags(concept)), AggTags(concept))
       IN  agg_label' = r.label /\ agg_map' = r.merged
    /\ pc' = "aggregate"
    /\ UNCHANGED <<cf, concept, cur_label, cur_map, lt_label, lt_map, debt_comp_map,
                   debt_label, debt_map, outsideSum>>

\* cur_label, cur_map = ...; lt_label, lt_map = ...
MergeComponents ==
    /\ pc = "aggregate"
    /\ LET r == merge_by_preference(annual_build_tag_maps(cf, FirstTags(concept)), FirstTags(concept))
       IN  cur_label' = r.label /\ cur_map' = r.merged
    /\ LET r == merge_by_preference(annual_build_tag_maps(cf, SecondTags(concept)), SecondTags(concept))
       IN  lt_label' = r.label /\ lt_map' = r.merged
    /\ pc' = "components"
    /\ UNCHANGED <<cf, concept, agg_label, agg_map, debt_comp_map, debt_label, debt_map,
                   outsideSum>>

\* debt_comp_map = add_series(cur_map, lt_map)
AddSeries ==
    /\ pc = "components"
    /\ debt_comp_map' = add_series(cur_map, lt_map)
    /\ pc' = "summed"
    /\ UNCHANGED <<cf, concept, agg_label, agg_map, cur_label, cur_map, lt_label, lt_map,
                   debt_label, debt_map, outsideSum>>

\* if len(debt_comp_map) > len(debt_map): debt_label = ...; debt_map = debt_comp_map
ChooseCoverage ==
    /\ pc = "summed"
    /\ IF UseComponentSum(debt_comp_map, agg_map)
       THEN /\ debt_label' = <<cur_label, lt_label, "(summed)">>
            /\ debt_map' = debt_comp_map
       ELSE /\ debt_label' = agg_label
            /\ debt_map' = agg_map
    /\ pc' = "chosen"
    /\ UNCHANGED <<cf, concept, agg_label, agg_map, cur_label, cur_map, lt_label, lt_map,
                   debt_comp_map, outsideSum>>

SumNext == MergeAggregate \/ MergeComponents \/ AddSeries \/ ChooseCoverage

SpecSum == SumInit /\ [][SumNext]_vars

(* ------------------------------ C6, C7 --------------------------------- *)

\* C6: the component sum has no value for a period key missing from both
\* component series; a key of exactly one component gets that component's
\* value plus 0, a key of both gets their sum.
C6_NoSpuriousSum ==
    pc \in {"summed", "chosen"} =>
        /\ \A k \in DOMAIN debt_comp_map : k \in DOMAIN cur_map \/ k \in DOMAIN lt_map
        /\ \A k \in (DOMAIN cur_map) \ (DOMAIN lt_map) :
              k \in DOMAIN debt_comp_map /\ debt_comp_map[k] = cur_map[k]
        /\ \A k \in (DOMAIN lt_map) \ (DOMAIN cur_map) :
              k \in DOMAIN debt_comp_map /\ debt_comp_map[k] = lt_map[k]
        /\ \A k \in (DOMAIN cur_map) \cap (DOMAIN lt_map) :
              k \in DOMAIN debt_comp_map /\ debt_comp_map[k] = cur_map[k] + lt_map[k]

\* C6 witness: one year is reported by both components, the other year by the
\* aggregate alone, and the sum has the first year only.
C6_Witness ==
    /\ pc = "summed"
    /\ \E k \in (DOMAIN cur_map) \cap (DOMAIN lt_map) :
          /\ DOMAIN debt_comp_map = {k}
          /\ debt_comp_map[k] = cur_map[k] + lt_map[k]
          /\ \E k2 \in DOMAIN agg_map : k2 # k

\* C7: the component sum is used when it covers strictly more period keys than
\* the merged aggregate, and only then: on a tie, or when the aggregate covers
\* more, the aggregate series is used.
C7_StrictlyMoreCoverage ==
    pc = "chosen" =>
        /\ Cardinality(DOMAIN debt_comp_map) > Cardinality(DOMAIN agg_map)
              => debt_map = debt_comp_map
        /\ Cardinality(DOMAIN debt_comp_map) <= Cardinality(DOMAIN agg_map)
              => debt_map = agg_map

\* C7 witness: a tie between different series, the aggregate kept.
C7_Witness ==
    /\ pc = "chosen"
    /\ Cardinality(DOMAIN debt_comp_map) = Cardinality(DOMAIN agg_map)
    /\ agg_map # <<>>
    /\ debt_comp_map # agg_map
    /\ debt_map = agg_map

(* ------------- get_series_with_fallback of one concept ----------------- *)

\* the concepts modelled, as backfill_company_quarterly calls the helper
Catalog ==
    [revenue |-> [preferred |-> REV_TAGS, keywords |-> FALLBACK_KEYWORDS.revenue,
                  derive |-> TRUE],
     accounts_payable |-> [preferred |-> AP_TAGS,
                  keywords |-> FALLBACK_KEYWORDS.accounts_payable, derive |-> FALSE]]

\* The tags a generated document may report.  For revenue: a preferred tag
\* that lacks a keyword, a preferred tag that has both, a tag outside the list
\* that has both.  For accounts payable: the preferred tag, a tag outside the
\* list with both keywords, a tag with one keyword only.
DocTags ==
    [revenue |-> <<Revenues, SalesRevenueNet, SalesRevenueServicesNet>>,
     accounts_payable |-> <<AccountsPayableCurrent, AccountsPayableTradeCurrent,
                            AccountsReceivableNetCurrent>>]

\* the value the i-th tag reports for a period: the tags disagree
TagValue(i, y, p) == QuarterValue(y, p) + 1000 * i

\* the document in which the i-th tag of tags reports the periods of F[i]
GenQuarterDoc(tags, F) ==
    LET arrOf(i) ==
            LET ks == SortedKeys(F[i])
            IN  [n \in 1..Len(ks) |->
                    [fy |-> Some(ks[n][1]), fp |-> ks[n][2],
                     end |-> Some(10 * ks[n][1] + StrRank(ks[n][2])),
                     val |-> Some(TagValue(i, ks[n][1], ks[n][2]))]]
    IN  [facts |-> [g \in {"us-gaap"} |->
            [t \in {tags[i] : i \in {j \in DOMAIN tags : F[j] # {}}} |->
                [units |-> << [unit |-> "USD",
                               arr |-> arrOf(CHOOSE i \in DOMAIN tags : tags[i] = t)] >>]]]]

\* the subsets of S of at most n elements
RECURSIVE SubsetsUpTo(_, _)
SubsetsUpTo(S, n) ==
    IF n = 0 THEN {{}}
    ELSE LET smaller == SubsetsUpTo(S, n - 1)
         IN  smaller \cup {T \cup {x} : T \in smaller, x \in S}

\* what the n tags report: at most MaxFacts facts in all
QuarterFactSets(n) ==
    {[i \in 1..n |-> {<<e[2], e[3]>> : e \in {d \in T : d[1] = i}}] :
        T \in SubsetsUpTo((1..n) \X Years \X Periods, MaxFacts)}

FallbackInit ==
    /\ pc = "start"
    /\ \E c \in DOMAIN Catalog :
          /\ pref = Catalog[c].preferred
          /\ keywords = Catalog[c].keywords
          /\ derive_q4 = Catalog[c].derive
          /\ cf \in {GenQuarterDoc(DocTags[c], F) : F \in QuarterFactSets(Len(DocTags[c]))}
    /\ tag_maps = <<>> /\ label = <<>> /\ merged = <<>>
    /\ fallback_map = <<>> /\ out = <<>>
    /\ extractIdle /\ sumIdle /\ opsIdle

\* tag_maps = build_tag_maps(...); _, merged = merge_by_preference(tag_maps, preferred)
PreferredMerge ==
    /\ pc = "start"
    /\ tag_maps' = build_tag_maps(cf, pref, "quarterly", derive_q4)
    /\ LET r == merge_by_preference(tag_maps', pref)
       IN  label' = r.label /\ merged' = r.merged
    /\ pc' = "merged"
    /\ UNCHANGED <<cf, pref, derive_q4, out, fallbackVars, outsideFallback>>

\* out = dict(merged); if keywords: fallback_map = keyword_fallback(...); setdefault
KeywordFill ==
    /\ pc = "merged"
    /\ fallback_map' = IF keywords # <<>>
                       THEN keyword_fallback(cf, keywords, "quarterly", derive_q4)
                       ELSE <<>>
    /\ out' = SetDefaults(merged, fallback_map')
    /\ pc' = "returned"
    /\ UNCHANGED <<cf, mergeVars, derive_q4, keywords, outsideFallback>>

FallbackNext == PreferredMerge \/ KeywordFill

SpecFallback == FallbackInit /\ [][FallbackNext]_vars

(* ------------------------------ C8, C9 --------------------------------- *)

C9_MergedKept ==
    pc = "returned" => \A k \in DOMAIN merged : k \in DOMAIN out /\ out[k] = merged[k]

\* C9 witness: the keyword-matched series disagrees with the merged series at
\* a period, and the merged value is the one returned.
C9_Witness ==
    /\ pc = "returned"
    /\ \E k \in (DOMAIN merged) \cap (DOMAIN fallback_map) :
          fallback_map[k] # merged[k] /\ out[k] = merged[k]

(* ------------------ fetch_companyfacts, request by request ------------- *)

\* the largest max_retries a call is made with (the default is 4)
MaxRetries == 5

NotJson == [valid |-> FALSE, value |-> <<>>]
JsonOf(v) == [valid |-> TRUE, value |-> v]

\* a companyfacts document, a JSON object without the "facts" root, and {}
OneFactDoc == GenDoc([k \in {<<NetIncomeLoss, 2021>>} |-> 100])
NoFactsDoc == [cik |-> 320193, entityName |-> "Apple Inc."]

\* _session.get(url) raised exc
Raised(exc) == [exc |-> exc, status_code |-> 0, retry_after |-> NoneV, body |-> NotJson]
\* _session.get(url) returned r
Answered(status_code, ra, body) ==
    [exc |-> "", status_code |-> status_code, retry_after |-> ra, body |-> body]

\* what the network may do to one request
Responses ==
    {Raised("ConnectionError"), Raised("TooManyRedirects")}
    \cup {Answered(200, NoneV, b) :
            b \in {JsonOf(OneFactDoc), JsonOf(NoFactsDoc), JsonOf(<<>>), NotJson}}
    \cup {Answered(404, NoneV, NotJson), Answered(403, NoneV, NotJson),
          Answered(204, NoneV, NotJson)}
    \cup {Answered(429, ra, NotJson) :
            ra \in {NoneV, Some(<<"3">>), Some(<<"1", ".", "5">>)}}
    \cup {Answered(503, Some(<<"1", "2">>), NotJson)}

FetchInit ==
    /\ pc = "fetching"
    /\ max_retries \in 0..MaxRetries
    /\ attempt = 0
    /\ delay = BaseDelay
    /\ slept = <<>>
    /\ wire = <<>>
    /\ fetched = NoneV
    /\ engineIdle /\ batchIdle /\ resolverIdle /\ unitIdle /\ variantIdle /\ txnIdle /\ refreshIdle

\* one pass of the loop on what _session.get did; the pass after which
\* range(max_retries + 1) is used up runs into `return {}`
LoopPass(resp) ==
    LET it == Iteration(resp, delay)
        exhausted == ~it.done /\ attempt + 1 >= Attempts(max_retries)
        ending == IF it.done THEN [raised |-> it.raised, value |-> it.value]
                  ELSE GiveUp
    IN  /\ wire' = Append(wire, resp)
        /\ attempt' = attempt + 1
        /\ slept' = slept \o it.slept
        /\ delay' = it.delay
        /\ fetched' = IF it.done \/ exhausted THEN Some(ending) ELSE NoneV
        /\ pc' = IF ~(it.done \/ exhausted) THEN "fetching"
                 ELSE IF ending.raised = "" THEN "returned" ELSE "raised"
        /\ UNCHANGED <<max_retries, outsideFetch>>

\* r = _session.get(url, timeout=timeout) raises
SessionGetRaises ==
    /\ pc = "fetching"
    /\ \E resp \in {x \in Responses : x.exc # ""} : LoopPass(resp)

\* r = _session.get(url, timeout=timeout) returns a response
SessionGetAnswers ==
    /\ pc = "fetching"
    /\ \E resp \in {x \in Responses : x.exc = ""} : LoopPass(resp)

FetchNext == SessionGetRaises \/ SessionGetAnswers

SpecFetch == FetchInit /\ [][FetchNext]_vars

\* every request ends (timeout=30), so a running call takes its next pass
SpecFetchLive == SpecFetch /\ WF_vars(FetchNext)

(* ------------------------- C13, C14, C18, C19 -------------------------- *)

\* the call is over and returned {}
ReturnedEmpty ==
    /\ pc = "returned"
    /\ Len(fetched) = 1
    /\ fetched[1].raised = ""
    /\ DOMAIN fetched[1].value = {}

\* the passes that end in time.sleep and `continue`
IsTransient(x) ==
    \/ x.exc \in TransientExceptions
    \/ x.exc = "" /\ x.status_code \in RetryStatus

IsNotFound(x) == x.exc = "" /\ x.status_code = 404

\* the responses after which the code slept, in order
Backoffs == SelectSeq(wire, IsTransient)

\* min(0.5 * 2^(k-1), 8.0), in tenths of a second
ComputedDelay(k) == IF BaseDelay * 2^(k - 1) < DelayCap THEN BaseDelay * 2^(k - 1) ELSE DelayCap

\* C13: a 404 response ends the call at once with {}: it is the last request
\* made, nothing is slept for it (the sleeps made are those of the transient
\* failures before it), and nothing is raised, whatever preceded it.
C13_NotFoundReturnsEmpty ==
    \A i \in 1..Len(wire) :
        IsNotFound(wire[i]) =>
            /\ i = Len(wire)
            /\ ReturnedEmpty
            /\ Len(slept) = Len(SelectSeq(SubSeq(wire, 1, i - 1), IsTransient))

C13_Witness ==
    /\ Len(wire) >= 3
    /\ IsNotFound(wire[Len(wire)])
    /\ Len(slept) >= 1
    /\ Len(slept) < Len(wire) - 1
    /\ ReturnedEmpty

C18_AsStated == max_retries = DefaultMaxRetries => Len(wire) <= 4

\* C18: a call issues at most max_retries + 1 requests (5 with the default of
\* 4), is over once it has issued that many, and always comes to an end.
C18_AtMostRetriesPlusOne ==
    /\ [](Len(wire) <= max_retries + 1)
    /\ [](Len(wire) = max_retries + 1 => pc # "fetching")
    /\ <>(pc # "fetching")

C18_Witness ==
    /\ max_retries = DefaultMaxRetries
    /\ Len(wire) = 5
    /\ ReturnedEmpty

\* a 429 response that carries a Retry-After header
IsRateLimitWithHint(x) == x.exc = "" /\ x.status_code = 429 /\ Len(x.retry_after) = 1

\* a 429 or 5xx response whose Retry-After header is a string of digits
HasSecondsHint(x) ==
    /\ x.exc = ""
    /\ x.status_code \in RetryStatus
    /\ Len(x.retry_after) = 1
    /\ isdigit(x.retry_after[1])

run_backfill_REV_TAGS ==
    <<RevenueFromContractWithCustomerExcludingAssessedTax, SalesRevenueNet, Revenues,
      SalesRevenueGoodsNet, RevenueFromContractWithCustomerIncludingAssessedTax>>

run_backfill_NI_TAGS == <<NetIncomeLoss>>

\* m.get(k), for a dict m: None or the value
Get(m, k) == IF k \in DOMAIN m THEN Some(m[k]) ELSE NoneV

\* x_label, x_map = merge_by_preference(build_tag_maps(cf, X_TAGS), X_TAGS)
MergedMap(doc, tags) == merge_by_preference(annual_build_tag_maps(doc, tags), tags).merged

\* steps 5 and 6: the aggregate series, or the component sum when it covers more
BestCoverage(doc, c) ==
    LET agg == MergedMap(doc, AggTags(c))
        comp == add_series(MergedMap(doc, FirstTags(c)), MergedMap(doc, SecondTags(c)))
    IN  IF UseComponentSum(comp, agg) THEN comp ELSE agg

\* the concept series of the columns modelled (the other columns are merged
\* from their tag lists exactly as revenue and net_income are)
AnnualMaps(doc) ==
    [revenue |-> MergedMap(doc, run_backfill_REV_TAGS),
     net_income |-> MergedMap(doc, run_backfill_NI_TAGS),
     cash_and_sti |-> BestCoverage(doc, "cash_and_sti"),
     total_debt |-> BestCoverage(doc, "total_debt")]

AnnualColumns == {"revenue", "net_income", "cash_and_sti", "total_debt"}

\* years = sorted(set(rev_map) | set(ni_map) | ...)
\* keys = set().union(*[m.keys() for m in maps.values()])
UnionOfKeys(m) == UNION {DOMAIN m[c] : c \in DOMAIN m}

\* values = {"company_id": company.id, "fiscal_year": int(y), "fiscal_period": "FY",
\*           "source": "sec", "revenue": rev_map.get(y), ...}
AnnualValues(cid, m, k) ==
    [c \in {"company_id", "fiscal_year", "fiscal_period", "source"} \cup DOMAIN m |->
        IF c = "company_id" THEN cid
        ELSE IF c = "fiscal_year" THEN k[1]
        ELSE IF c = "fiscal_period" THEN "FY"
        ELSE IF c = "source" THEN "sec"
        ELSE Get(m[c], k)]

\* for y in years: values = {...}
AnnualBatchSkipsPartial(cid, m) ==
    LET years == SortedKeys({k \in UnionOfKeys(m) : \A c \in DOMAIN m : k \in DOMAIN m[c]})
    IN  [i \in 1..Len(years) |-> AnnualValues(cid, m, years[i])]
AnnualBatch(cid, m) ==
    LET years == SortedKeys(UnionOfKeys(m))
    IN  [i \in 1..Len(years) |-> AnnualValues(cid, m, years[i])]

\* index_elements of the two upserts
AnnualIndex == {"company_id", "fiscal_year"}
QuarterlyIndex == {"company_id", "fiscal_year", "fiscal_period"}

\* pg_insert(Model).values(**values).on_conflict_do_update(index_elements, set_)
\* on a table kept as the sequence of its rows: the row with the same index
\* elements gets the set_ columns of the new values, else the values are added
InsertIgnoringConflict(tbl, values, index_elements) == Append(tbl, values)
on_conflict_do_update(tbl, values, index_elements) ==
    LET same(r) == \A c \in index_elements : r[c] = values[c]
    IN  IF \E i \in DOMAIN tbl : same(tbl[i])
        THEN [i \in DOMAIN tbl |->
                IF same(tbl[i])
                THEN [c \in DOMAIN tbl[i] |->
                        IF c \in (DOMAIN values) \ (index_elements \cup {"fiscal_period"})
                        THEN values[c] ELSE tbl[i][c]]
                ELSE tbl[i]]
        ELSE Append(tbl, values)

\* for ...: db.execute(stmt); then db.commit()
RECURSIVE UpsertAll(_, _, _)
UpsertAll(tbl, rows, index_elements) ==
    IF Len(rows) = 0 THEN tbl
    ELSE CHOOSE done \in {UpsertAll(t, Tail(rows), index_elements) :
                            t \in {on_conflict_do_update(tbl, Head(rows), index_elements)}} :
            TRUE

\* _upsert_annual_rows: the values of one external row
ExternalValues(cid, row) ==
    [c \in {"company_id", "fiscal_year", "fiscal_period", "source"} \cup AnnualColumns |->
        IF c = "company_id" THEN cid
        ELSE IF c = "fiscal_year" THEN row.fiscal_year
        ELSE IF c = "fiscal_period" THEN DictGet(row, "fiscal_period", "FY")
        ELSE IF c = "source" THEN DictGet(row, "source", "external")
        ELSE DictGet(row, c, NoneV)]

\* _upsert_annual_rows: rows without a fiscal_year are skipped
HasFiscalYear(row) == "fiscal_year" \in DOMAIN row

ExternalBatch(cid, rows) ==
    LET kept == SelectSeq(rows, HasFiscalYear)
    IN  [i \in 1..Len(kept) |-> ExternalValues(cid, kept[i])]

\* ext_rows = fetch_yahoo_annual_variants(...)
\* if ext_rows: return _upsert_annual_rows(db, company, ext_rows)
\* return 0
SkipsExternal(cid, primary, m, ext) ==
    [raised |-> "", primary |-> primary, path |-> "nothing", maps |-> m,
     batch |-> <<>>, n |-> 0]
ExternalFallback(cid, primary, m, ext) ==
    IF Len(ext) > 0
    THEN [raised |-> "", primary |-> primary, path |-> "external", maps |-> m,
          batch |-> ExternalBatch(cid, ext), n |-> Len(ExternalBatch(cid, ext))]
    ELSE [raised |-> "", primary |-> primary, path |-> "nothing", maps |-> m,
          batch |-> <<>>, n |-> 0]

\* backfill_company(db, company) on a network that answers as scr says and a
\* secondary adapter that yields ext: what it raises, the values it upserts
\* (in order) and the count it returns
backfill_company(co, scr, ext) ==
    IF co.cik = NoneV
    THEN [raised |-> "", primary |-> "none", path |-> "no_cik", maps |-> <<>>,
          batch |-> <<>>, n |-> 0]
    ELSE LET f == fetch_companyfacts(scr, DefaultMaxRetries) IN
         IF f.raised # ""
         THEN [raised |-> f.raised, primary |-> "raised", path |-> "raised", maps |-> <<>>,
               batch |-> <<>>, n |-> 0]
         ELSE IF DOMAIN f.value = {}
         THEN ExternalFallback(co.id, "empty", <<>>, ext)
         ELSE LET m == AnnualMaps(f.value) IN
              IF UnionOfKeys(m) = {}
              THEN ExternalFallback(co.id, "document", m, ext)
              ELSE [raised |-> "", primary |-> "document", path |-> "sec", maps |-> m,
                    batch |-> AnnualBatch(co.id, m),
                    n |-> Len(AnnualBatch(co.id, m))]

(* ------- ops/run_backfill_quarterly: backfill_company_quarterly -------- *)

\* get_series_with_fallback(cf, preferred, keywords, period_type, derive_q4)
get_series_with_fallback(doc, preferred, kws, period_type, derive) ==
    LET tm == build_tag_maps(doc, preferred, period_type, derive)
        mg == merge_by_preference(tm, preferred).merged
        fb == IF Len(kws) > 0 THEN keyword_fallback(doc, kws, period_type, derive)
              ELSE <<>>
    IN  SetDefaults(mg, fb)

\* maps = {"revenue": get_series_with_fallback(...), ...}, for the concepts modelled
QuarterlyMaps(doc) ==
    [c \in DOMAIN Catalog |->
        get_series_with_fallback(doc, Catalog[c].preferred, Catalog[c].keywords,
                                 "quarterly", Catalog[c].derive)]

\* values = {"company_id": ..., "fiscal_year": fy, "fiscal_period": fp, "source": "sec"}
\* for field, m in maps.items(): values[field] = m.get((fy, fp))
QuarterlyValues(cid, m, k) ==
    [c \in {"company_id", "fiscal_year", "fiscal_period", "source"} \cup DOMAIN m |->
        IF c = "company_id" THEN cid
        ELSE IF c = "fiscal_year" THEN k[1]
        ELSE IF c = "fiscal_period" THEN k[2]
        ELSE IF c = "source" THEN "sec"
        ELSE Get(m[c], k)]

\* for (fy, fp) in sorted(keys)
QuarterlyBatch(cid, m) ==
    LET ks == SortedKeys(UnionOfKeys(m))
    IN  [i \in 1..Len(ks) |-> QuarterlyValues(cid, m, ks[i])]

backfill_company_quarterly(co, scr) ==
    IF co.cik = NoneV
    THEN [raised |-> "", primary |-> "none", path |-> "no_cik", maps |-> <<>>,
          batch |-> <<>>, n |-> 0]
    ELSE LET f == fetch_companyfacts(scr, DefaultMaxRetries) IN
         IF f.raised # ""
         THEN [raised |-> f.raised, primary |-> "raised", path |-> "raised", maps |-> <<>>,
               batch |-> <<>>, n |-> 0]
         ELSE IF DOMAIN f.value = {}
         THEN [raised |-> "", primary |-> "empty", path |-> "nothing", maps |-> <<>>,
               batch |-> <<>>, n |-> 0]
         ELSE LET m == QuarterlyMaps(f.value)
              IN  [raised |-> "", primary |-> "document",
                   path |-> IF UnionOfKeys(m) = {} THEN "nothing" ELSE "sec",
                   maps |-> m, batch |-> QuarterlyBatch(co.id, m),
                   n |-> Len(QuarterlyBatch(co.id, m))]

(* -------------------- one company, run twice --------------------------- *)

\* the largest number of facts of a generated quarterly filing
MaxFilingFacts == 2

CompanyA == [id |-> 1, cik |-> Some(320193), ticker |-> "AAA"]

\* A row that is in the table before the run, with v in every concept column.
SeedRow(cid, fy, fp, src, cols, v) ==
    [c \in {"company_id", "fiscal_year", "fiscal_period", "source"} \cup cols |->
        IF c = "company_id" THEN cid
        ELSE IF c = "fiscal_year" THEN fy
        ELSE IF c = "fiscal_period" THEN fp
        ELSE IF c = "source" THEN src
        ELSE Some(v)]

\* The table before the run: a row of a company that is not run, a row of
\* company 1 for a period the document may cover, carrying older values, and
\* a row of company 1 for a year no document covers.
SeedTable(j) ==
    LET cols == IF j = "annual" THEN AnnualColumns ELSE DOMAIN Catalog
        fp == IF j = "annual" THEN "FY" ELSE "Q1"
    IN  << SeedRow(9, 2021, fp, "sec", cols, 7),
           SeedRow(1, 2021, fp, "external_yahoo", cols, 8),
           SeedRow(1, 2019, fp, "sec", cols, 9) >>

\* rows as fetch_yahoo_annual builds them: the keys of the statements found,
\* a None where _get_raw found no number
YahooRow2021 ==
    [fiscal_year |-> 2021, fiscal_period |-> "FY", source |-> "external_yahoo",
     source_symbol |-> "AAA.TO", revenue |-> Some(700), net_income |-> NoneV]
YahooRow2022 ==
    [fiscal_year |-> 2022, fiscal_period |-> "FY", source |-> "external_yahoo",
     source_symbol |-> "AAA.TO", revenue |-> Some(800), net_income |-> Some(80),
     cash_and_sti |-> Some(50), total_debt |-> Some(30)]

\* what the secondary adapter may yield
ExtResults == {<<>>, <<YahooRow2021>>, <<YahooRow2022, YahooRow2021>>}

\* the tags an annual document may report: tags of the four concepts' lists
\* and a tag of no list
AnnualDocTags ==
    <<Revenues, SalesRevenueNet, NetIncomeLoss, CashCashEquivalentsAndShortTermInvestments,
      CashAndCashEquivalentsAtCarryingValue, ShortTermInvestments, Debt,
      AccountsPayableTradeCurrent>>

\* the FY value the i-th tag reports for year y: the tags disagree
AnnualFact(i, y) == 100 * i + (y - 2020)

\* the annual documents of at most n facts
AnnualDocs(n) ==
    {GenDoc([p \in T |->
                AnnualFact(CHOOSE i \in DOMAIN AnnualDocTags : AnnualDocTags[i] = p[1], p[2])]) :
        T \in SubsetsUpTo(TagsOf(AnnualDocTags) \X Years, n)}

\* the tags a quarterly filing may report: a preferred revenue tag, a revenue
\* tag only the keywords match, the accounts payable tag
FilingTags == <<Revenues, SalesRevenueServicesNet, AccountsPayableCurrent>>

\* the quarterly filings of at most n facts
QuarterlyFilings(n) ==
    {GenQuarterDoc(FilingTags,
                   [i \in DOMAIN FilingTags |-> {<<d[2], d[3]>> : d \in {x \in T : x[1] = i}}]) :
        T \in SubsetsUpTo((DOMAIN FilingTags) \X Years \X Periods, n)}

\* the SEC endpoint serves the document at the first request
Serves(doc) == <<Answered(200, NoneV, JsonOf(doc))>>

IndexOf(j) == IF j = "annual" THEN AnnualIndex ELSE QuarterlyIndex

\* backfill_company resp. backfill_company_quarterly
CompanyRun(j, co, scr, ext) ==
    IF j = "annual" THEN backfill_company(co, scr, ext)
    ELSE backfill_company_quarterly(co, scr)

RerunInit ==
    /\ pc = "start"
    /\ job \in {"annual", "quarterly"}
    /\ companies = <<CompanyA>>
    /\ \E doc \in IF job = "annual" THEN AnnualDocs(MaxFacts)
                  ELSE QuarterlyFilings(MaxFilingFacts) :
            script = Serves(doc)
    /\ ext_rows \in IF job = "annual" THEN ExtResults ELSE {<<>>}
    /\ table = SeedTable(job)
    /\ maps = <<>> /\ batch = <<>> /\ rows_written = NoneV /\ first = NoneV
    /\ cursor = 0 /\ total = 0 /\ crash = "" /\ log = <<>>
    /\ engineIdle /\ fetchIdle /\ resolverIdle /\ unitIdle /\ variantIdle /\ txnIdle /\ refreshIdle

\* n = backfill_company(db, co): the rows are upserted and committed
RunOnce ==
    \E r \in {CompanyRun(job, companies[1], script, ext_rows)} :
        /\ maps' = r.maps
        /\ batch' = r.batch
        /\ rows_written' = Some(r.n)
        /\ table' = UpsertAll(table, r.batch, IndexOf(job))

FirstRun ==
    /\ pc = "start"
    /\ RunOnce
    /\ first' = Some([batch |-> batch', table |-> table', n |-> rows_written'])
    /\ pc' = "ran_once"
    /\ UNCHANGED <<job, companies, script, ext_rows, cursor, total, crash, log,
                   outsideBatch>>

\* the same run again, served the same answers
SecondRun ==
    /\ pc = "ran_once"
    /\ RunOnce
    /\ pc' = "ran_twice"
    /\ UNCHANGED <<job, companies, script, ext_rows, first, cursor, total, crash, log,
                   outsideBatch>>

RerunNext == FirstRun \/ SecondRun

SpecRerun == RerunInit /\ [][RerunNext]_vars

(* ------------------------------ C12, C16 ------------------------------- *)

\* the index elements of a row of the job's table
KeyOn(r) == [c \in IndexOf(job) |-> r[c]]

\* the period key of a row
PeriodKey(r) == <<r.fiscal_year, r.fiscal_period>>

KeysOf(rows) == {KeyOn(rows[i]) : i \in DOMAIN rows}

OneRowPerKey(rows) == \A i, j \in DOMAIN rows : i # j => KeyOn(rows[i]) # KeyOn(rows[j])

Ran == pc \in {"ran_once", "ran_twice"}

\* C12: the second run of a company against the same document emits the same
\* batch and returns the same count as the first, and leaves the table as the
\* first run left it: one row per (company_id, fiscal_year[, fiscal_period]),
\* a row for every key of the batch, and the rows of other keys and of other
\* companies as they were before the runs.
C12_RerunIdempotent ==
    pc = "ran_twice" =>
        /\ batch = first[1].batch
        /\ rows_written = first[1].n
        /\ table = first[1].table
        /\ OneRowPerKey(table)
        /\ KeysOf(table) = KeysOf(SeedTable(job)) \cup KeysOf(batch)
        /\ \A i \in DOMAIN SeedTable(job) :
              KeyOn(SeedTable(job)[i]) \notin KeysOf(batch)
                  => \E j \in DOMAIN table : table[j] = SeedTable(job)[i]

C12_Witness ==
    /\ pc = "ran_twice"
    /\ Len(batch) >= 2
    /\ \E i \in DOMAIN batch : KeyOn(batch[i]) \in KeysOf(SeedTable(job))
    /\ \E i \in DOMAIN batch : KeyOn(batch[i]) \notin KeysOf(SeedTable(job))
    /\ table # SeedTable(job)
    /\ Len(table) > Len(SeedTable(job))

\* the batch has one row per period key of the union of the concept series,
\* each column holding the series value at the key or null, and the count
\* returned is the size of the union
RowsMatchSeries ==
    LET U == UnionOfKeys(maps)
    IN  /\ Len(batch) = Cardinality(U)
        /\ {PeriodKey(batch[i]) : i \in DOMAIN batch} = U
        /\ \A i \in DOMAIN batch : \A c \in DOMAIN maps :
              batch[i][c] = Get(maps[c], PeriodKey(batch[i]))
        /\ rows_written = Some(Cardinality(U))

MaxCompanies == 3

\* the tracked companies the query may return; one has no CIK on record
CompanyB == [id |-> 2, cik |-> Some(789019), ticker |-> "BBB"]
CompanyC == [id |-> 4, cik |-> Some(1652044), ticker |-> "CCC"]
CompanyN == [id |-> 3, cik |-> NoneV, ticker |-> "NNN"]
Tracked == <<CompanyA, CompanyB, CompanyC, CompanyN>>

\* q.order_by(Company.ticker).limit(args.limit): the non-empty sublists of
\* the tracked companies, in ticker order, of at most n companies
RECURSIVE Pick(_, _)
Pick(S, i) ==
    IF i > Len(Tracked) THEN <<>>
    ELSE IF i \in S THEN <<Tracked[i]>> \o Pick(S, i + 1) ELSE Pick(S, i + 1)

CompanyLists(n) ==
    {Pick(S, 1) : S \in {T \in SUBSET (DOMAIN Tracked) : T # {} /\ Cardinality(T) <= n}}

\* the document the SEC holds for a company with data
DocOf(j) ==
    IF j = "annual"
    THEN GenDoc([k \in {<<Revenues, 2021>>, <<Revenues, 2022>>, <<NetIncomeLoss, 2022>>} |->
                    IF k[1] = Revenues THEN 300 + (k[2] - 2020) ELSE 40])
    ELSE GenQuarterDoc(FilingTags, <<{<<2021, "Q1">>, <<2021, "Q2">>}, {}, {<<2021, "Q2">>}>>)

Unavailable == Answered(503, NoneV, NotJson)

\* what the SEC endpoint may answer to the requests of one company's fetch
BatchScripts(j) ==
    { Serves(DocOf(j)),
      <<Raised("ConnectionError")>> \o Serves(DocOf(j)),
      <<Answered(404, NoneV, NotJson)>>,
      [i \in 1..Attempts(DefaultMaxRetries) |-> Unavailable],
      <<Answered(403, NoneV, NotJson)>>,
      <<Answered(200, NoneV, NotJson)>>,
      <<Answered(200, NoneV, JsonOf(NoFactsDoc))>> }

BatchInit ==
    /\ pc = "running"
    /\ job \in {"annual", "quarterly"}
    /\ companies \in CompanyLists(MaxCompanies)
    /\ cursor = 1
    /\ table = SeedTable(job)
    /\ total = 0
    /\ crash = ""
    /\ log = <<>>
    /\ script = <<>> /\ ext_rows = <<>> /\ maps = <<>> /\ batch = <<>>
    /\ rows_written = NoneV /\ first = NoneV
    /\ engineIdle /\ fetchIdle /\ resolverIdle /\ unitIdle /\ variantIdle /\ txnIdle /\ refreshIdle

\* whether the run of a company got as far as asking the secondary adapter
Consulted(r) == job = "annual" /\ r.path \in {"external", "nothing"}

\* what one pass of `for co in companies` did
LogEntry(co, scr, ext, r) ==
    [company_id |-> co.id,
     answers |-> IF co.cik = NoneV THEN <<>> ELSE scr,
     consulted |-> Consulted(r),
     ext |-> IF Consulted(r) THEN ext ELSE <<>>,
     raised |-> r.raised, primary |-> r.primary, path |-> r.path,
     batch |-> r.batch, n |-> r.n]

\* n = backfill_company(db, co); total += n; the next company, or the end of
\* the loop (then db.close())
CompanyBackfilled ==
    /\ pc = "running"
    /\ \E scr \in BatchScripts(job), ext \in ExtResults :
         \E r \in {CompanyRun(job, companies[cursor], scr, ext)} :
             /\ r.raised = ""
             /\ table' = UpsertAll(table, r.batch, IndexOf(job))
             /\ total' = total + r.n
             /\ log' = Append(log, LogEntry(companies[cursor], scr, ext, r))
    /\ cursor' = cursor + 1
    /\ pc' = IF cursor = Len(companies) THEN "done" ELSE "running"
    /\ UNCHANGED <<job, companies, crash, script, ext_rows, maps, batch, rows_written,
                   first, outsideBatch>>

\* backfill_company(db, co) raises: nothing in main catches it, the `finally`
\* closes the session and the exception ends the run
CompanyRaises ==
    /\ pc = "running"
    /\ \E scr \in BatchScripts(job), ext \in ExtResults :
         \E r \in {CompanyRun(job, companies[cursor], scr, ext)} :
             /\ r.raised # ""
             /\ crash' = r.raised
             /\ log' = Append(log, LogEntry(companies[cursor], scr, ext, r))
    /\ pc' = "crashed"
    /\ UNCHANGED <<job, companies, cursor, table, total, script, ext_rows, maps, batch,
                   rows_written, first, outsideBatch>>

BatchNext == CompanyBackfilled \/ CompanyRaises

SpecBatch == BatchInit /\ [][BatchNext]_vars

(* --------------------------- C11, C15, C20 ----------------------------- *)

\* the rows of a table that belong to company cid, resp. to the others
RowsOf(tbl, cid) == {tbl[i] : i \in {n \in DOMAIN tbl : tbl[n].company_id = cid}}
RowsOfOthers(tbl, cid) == {tbl[i] : i \in {n \in DOMAIN tbl : tbl[n].company_id # cid}}

\* the pass of the loop taken in this step, when one is taken
PassTaken == Len(log') = Len(log) + 1
ThisPass == log'[Len(log')]

\* C11: in the annual batch, a company whose primary fetch returns Empty is
\* handed to the secondary adapter and exactly the adapter's rows are
\* upserted for it (one row per adapter row, with its year and values and the
\* adapter's source; the company's other rows and the other companies' rows
\* stay as they were); when the adapter yields nothing too the table is left
\* as it was and 0 is returned; in both cases nothing is raised, the count is
\* added to the total and the loop goes on to the next company.
C11_EmptyPrimaryDelegates ==
    [][ (PassTaken /\ job = "annual" /\ ThisPass.primary = "empty") =>
          LET en == ThisPass
              cid == en.company_id
          IN  /\ en.raised = "" /\ crash' = "" /\ pc' # "crashed"
              /\ en.consulted
              /\ Len(en.batch) = Len(en.ext)
              /\ en.n = Len(en.ext)
              /\ \A i \in DOMAIN en.batch :
                    /\ en.batch[i].company_id = cid
                    /\ en.batch[i].fiscal_year = en.ext[i].fiscal_year
                    /\ en.batch[i].source = "external_yahoo"
                    /\ \A c \in AnnualColumns :
                          en.batch[i][c] = DictGet(en.ext[i], c, NoneV)
              /\ RowsOfOthers(table', cid) = RowsOfOthers(table, cid)
              /\ \A r \in RowsOf(table', cid) :
                    \/ r \in RowsOf(table, cid)
                    \/ \E i \in DOMAIN en.batch : r = en.batch[i]
              /\ \A i \in DOMAIN en.batch : en.batch[i] \in RowsOf(table', cid)
              /\ (en.ext = <<>> => table' = table /\ en.n = 0)
              /\ total' = total + en.n
              /\ cursor' = cursor + 1
              /\ (cursor < Len(companies) => pc' = "running")
      ]_vars

C11_Witness ==
    /\ job = "annual"
    /\ pc = "done"
    /\ Len(log) = 3
    /\ log[1].primary = "empty" /\ log[1].n = 2 /\ log[1].path = "external"
    /\ log[2].primary = "empty" /\ log[2].consulted /\ log[2].ext = <<>> /\ log[2].n = 0
    /\ log[3].path = "sec"
    /\ total = 2 + log[3].n

\* C15 as stated: a run that is over has processed every company of the list,
\* whatever failed on the way.
C15_AsStated == pc # "running" => Len(log) = Len(companies) /\ crash = ""

\* the last answer of the SEC endpoint is a 200 whose body is not JSON, or is
\* JSON without the "facts" root
Malformed(scr) ==
    /\ Len(scr) > 0
    /\ scr[Len(scr)].exc = ""
    /\ scr[Len(scr)].status_code = 200
    /\ \/ ~scr[Len(scr)].body.valid
       \/ "facts" \notin DOMAIN scr[Len(scr)].body.value

\* C20 as stated: a company whose document is malformed raises nothing into
\* the batch loop, yields no primary row, and the run continues.
C20_AsStated ==
    \A i \in DOMAIN log :
        Malformed(log[i].answers) =>
            /\ log[i].raised = ""
            /\ log[i].path # "sec"
            /\ crash = ""

(* ------------- app/routers/qa: _resolve_companies_from_plan ------------ *)

\* confidences are in hundredths
RESOLVER_AUTO_RESOLVE_MIN_CONFIDENCE == 80

\* the longest plan["companies"] list
MaxCandidates == 3

\* an entry of plan["companies"]: a string (kept as its characters) or not
Str(t) == [is_str |-> TRUE, text |-> t]
NotStr == [is_str |-> FALSE, text |-> <<>>]

\* str.strip()
RECURSIVE lstrip(_)
lstrip(t) == IF Len(t) > 0 /\ Head(t) = " " THEN lstrip(Tail(t)) ELSE t
RECURSIVE rstrip(_)
rstrip(t) ==
    IF Len(t) > 0 /\ t[Len(t)] = " " THEN rstrip(SubSeq(t, 1, Len(t) - 1)) ELSE t
strip(t) == rstrip(lstrip(t))

\* isinstance(c, str) and c.strip()
IsCandidate(c) == c.is_str /\ Len(strip(c.text)) > 0

\* requested = [c for c in plan.get("companies", []) if ...]
Requested(p) == SelectSeq(p, IsCandidate)

Apple == [id |-> 1, ticker |-> "AAPL", name |-> "Apple Inc."]
AdvancedMicro == [id |-> 43, ticker |-> "AMD", name |-> "ADVANCED MICRO DEVICES INC"]
Ehave == [id |-> 42, ticker |-> "EHVVF", name |-> "Ehave, Inc."]

TxtAAPL == <<"A", "A", "P", "L">>
TxtPadded == <<" ", "a", "a", "p", "l", " ">>
TxtApple == <<"a", "p", "p", "l", "e">>
TxtAMD == <<"A", "M", "D">>
TxtHAVE == <<"H", "A", "V", "E">>
TxtNone == <<"z", "z", "z">>
TxtBlank == <<" ", " ">>

\* what plan["companies"] may hold
PlanEntries ==
    {Str(t) : t \in {TxtAAPL, TxtPadded, TxtApple, TxtAMD, TxtHAVE, TxtNone, TxtBlank, <<>>}}
    \cup {NotStr}

RECURSIVE ListsUpTo(_, _)
ListsUpTo(S, n) ==
    IF n = 0 THEN {<<>>}
    ELSE LET shorter == ListsUpTo(S, n - 1)
         IN  shorter \cup {Append(l, x) : l \in shorter, x \in S}

\* a return value of _resolve_company_candidate
Found(co, confidence, reason) ==
    [company |-> Some(co), confidence |-> confidence, reason |-> reason]
NotFound(reason) == [company |-> NoneV, confidence |-> 0, reason |-> reason]

\* what _resolve_company_candidate may return for a candidate, the database
\* being what it is: its own return statements, and for "HAVE" also the
\* confidences a replaced resolver gives (0.6 in the unit tests) and the
\* threshold itself
Resolutions(t) ==
    IF t \in {TxtAAPL, TxtPadded} THEN {Found(Apple, 100, "exact_ticker")}
    ELSE IF t = TxtApple THEN {Found(Apple, 95, "exact_name"),
                               Found(Apple, 85, "unique_prefix_name")}
    ELSE IF t = TxtAMD THEN {Found(AdvancedMicro, 100, "exact_ticker"),
                             NotFound("no_name_match")}
    ELSE IF t = TxtHAVE THEN {Found(Ehave, 75, "single_contains_low_confidence"),
                              Found(Ehave, 60, "single_contains_low_confidence"),
                              Found(Ehave, 40, "ambiguous_name"),
                              Found(Ehave, 80, "unique_prefix_name")}
    ELSE {NotFound("no_name_match")}

ResolveInit ==
    /\ plan \in ListsUpTo(PlanEntries, MaxCandidates)
    /\ requested = Requested(plan)
    /\ nth = 0
    /\ outcomes = <<>>
    /\ resolved = <<>>
    /\ unresolved = <<>>
    /\ seen_ids = {}
    /\ diagnostics = <<>>
    /\ pc = IF Len(Requested(plan)) = 0 THEN "returned" ELSE "resolving"
    /\ engineIdle /\ fetchIdle /\ batchIdle /\ unitIdle /\ variantIdle /\ txnIdle /\ refreshIdle

\* if confidence < RESOLVER_AUTO_RESOLVE_MIN_CONFIDENCE
AcceptsAnyConfidence(confidence) == FALSE
BelowThreshold(confidence) == confidence < RESOLVER_AUTO_RESOLVE_MIN_CONFIDENCE

\* for candidate in requested: company, confidence, reason = _resolve_company_candidate(...)
Taking(res) ==
    /\ pc = "resolving"
    /\ nth < Len(requested)
    /\ res \in Resolutions(requested[nth + 1].text)
    /\ outcomes' = Append(outcomes, res)
    /\ nth' = nth + 1
    /\ pc' = IF nth + 1 = Len(requested) THEN "returned" ELSE "resolving"
    /\ UNCHANGED <<plan, requested, outsideResolver>>

\* if not company
CandidateUnmatched ==
    \E res \in UNION {Resolutions(c.text) : c \in PlanEntries} :
        /\ Taking(res)
        /\ res.company = NoneV
        /\ unresolved' = Append(unresolved, requested[nth + 1].text)
        /\ diagnostics' = Append(diagnostics,
              [candidate |-> requested[nth + 1].text, resolved_ticker |-> NoneV,
               confidence |-> 0, reason |-> res.reason, decision |-> "unresolved"])
        /\ UNCHANGED <<resolved, seen_ids>>

\* if confidence < RESOLVER_AUTO_RESOLVE_MIN_CONFIDENCE
CandidateNeedsClarification ==
    \E res \in UNION {Resolutions(c.text) : c \in PlanEntries} :
        /\ Taking(res)
        /\ res.company # NoneV
        /\ BelowThreshold(res.confidence)
        /\ unresolved' = Append(unresolved, requested[nth + 1].text)
        /\ diagnostics' = Append(diagnostics,
              [candidate |-> requested[nth + 1].text,
               resolved_ticker |-> Some(res.company[1].ticker),
               resolved_name |-> res.company[1].name,
               confidence |-> res.confidence, reason |-> res.reason,
               decision |-> "clarification_required"])
        /\ UNCHANGED <<resolved, seen_ids>>

\* if company.id in seen_ids
CandidateDuplicate ==
    \E res \in UNION {Resolutions(c.text) : c \in PlanEntries} :
        /\ Taking(res)
        /\ res.company # NoneV
        /\ ~BelowThreshold(res.confidence)
        /\ res.company[1].id \in seen_ids
        /\ diagnostics' = Append(diagnostics,
              [candidate |-> requested[nth + 1].text,
               resolved_ticker |-> Some(res.company[1].ticker),
               confidence |-> res.confidence, reason |-> "duplicate",
               decision |-> "duplicate"])
        /\ UNCHANGED <<resolved, unresolved, seen_ids>>

\* seen_ids.add(company.id); resolved.append(company)
CandidateResolved ==
    \E res \in UNION {Resolutions(c.text) : c \in PlanEntries} :
        /\ Taking(res)
        /\ res.company # NoneV
        /\ ~BelowThreshold(res.confidence)
        /\ res.company[1].id \notin seen_ids
        /\ seen_ids' = seen_ids \cup {res.company[1].id}
        /\ resolved' = Append(resolved, res.company[1])
        /\ diagnostics' = Append(diagnostics,
              [candidate |-> requested[nth + 1].text,
               resolved_ticker |-> Some(res.company[1].ticker),
               confidence |-> res.confidence, reason |-> res.reason,
               decision |-> "resolved"])
        /\ UNCHANGED unresolved

ResolveNext ==
    \/ CandidateUnmatched
    \/ CandidateNeedsClarification
    \/ CandidateDuplicate
    \/ CandidateResolved

SpecResolve == ResolveInit /\ [][ResolveNext]_vars

(* -------------------------------- C17 ---------------------------------- *)

DecidedResolved(d) == d.decision = "resolved"
DecidedUnresolved(d) == d.decision \in {"unresolved", "clarification_required"}

\* C17: at every point of _resolve_companies_from_plan, and so at its return:
\* each candidate taken so far has exactly one diagnostic, in candidate order;
\* `resolved` holds, in candidate order, exactly the companies of the
\* candidates whose decision is "resolved", each returned by the resolver with
\* confidence >= RESOLVER_AUTO_RESOLVE_MIN_CONFIDENCE, and no company id
\* twice; a candidate the resolver matched with a lower confidence is in
\* `unresolved` and its diagnostic has decision "clarification_required" and
\* the ticker of the low-confidence match.
C17_ConfidentOnlyResolved ==
    /\ Len(diagnostics) = nth /\ Len(outcomes) = nth
    /\ (pc = "returned" => nth = Len(requested))
    /\ \A k \in DOMAIN diagnostics : diagnostics[k].candidate = requested[k].text
    /\ LET picked == SelectSeq(diagnostics, DecidedResolved)
           left == SelectSeq(diagnostics, DecidedUnresolved)
       IN  /\ Len(resolved) = Len(picked)
           /\ \A i \in DOMAIN resolved : picked[i].resolved_ticker = Some(resolved[i].ticker)
           /\ unresolved = [i \in DOMAIN left |-> left[i].candidate]
    /\ \A k \in DOMAIN diagnostics :
          /\ diagnostics[k].decision = "resolved" =>
                /\ outcomes[k].company # NoneV
                /\ outcomes[k].confidence >= RESOLVER_AUTO_RESOLVE_MIN_CONFIDENCE
                /\ diagnostics[k].resolved_ticker = Some(outcomes[k].company[1].ticker)
          /\ (outcomes[k].company # NoneV
              /\ outcomes[k].confidence < RESOLVER_AUTO_RESOLVE_MIN_CONFIDENCE) =>
                /\ diagnostics[k].decision = "clarification_required"
                /\ diagnostics[k].resolved_ticker = Some(outcomes[k].company[1].ticker)
                /\ diagnostics[k].confidence = outcomes[k].confidence
                /\ \E i \in DOMAIN unresolved : unresolved[i] = requested[k].text
    /\ \A i, j \in DOMAIN resolved : i # j => resolved[i].id # resolved[j].id
    /\ seen_ids = {resolved[i].id : i \in DOMAIN resolved}

C17_Witness ==
    /\ pc = "returned"
    /\ Len(requested) = MaxCandidates
    /\ Len(resolved) = 1 /\ resolved[1] = Ehave
    /\ outcomes[1].confidence = 60 /\ diagnostics[1].decision = "clarification_required"
    /\ diagnostics[1].resolved_ticker = Some("EHVVF")
    /\ outcomes[2].confidence = RESOLVER_AUTO_RESOLVE_MIN_CONFIDENCE
    /\ diagnostics[2].decision = "resolved"
    /\ diagnostics[3].decision = "duplicate"
    /\ unresolved = <<TxtHAVE>>

(* ---------------- sec_fetch_companyfacts: _pick_unit ------------------- *)

\* the largest number of units a tag reports, and of observations of a unit
MaxUnits == 3
MaxUnitObs == 2

CommonStockSharesOutstanding == <<"C","o","m","m","o","n","S","t","o","c","k","S","h","a","r","e","s","O","u","t","s","t","a","n","d","i","n","g">>

\* a tag with an override, a share-like tag without one, a monetary tag
PickTags ==
    {WeightedAverageNumberOfDilutedSharesOutstanding, CommonStockSharesOutstanding,
     NetIncomeLoss}

UnitPool == {"USD", "shares", "EUR", "CAD"}

\* n annual observations
ObsOfUnit(n) ==
    [i \in 1..n |-> [fy |-> Some(2020 + i), fp |-> "FY", end |-> NoneV, val |-> Some(10 * i)]]

\* the units dicts of at most n units: the names in the document's order,
\* each with its list of observations
RECURSIVE UnitDicts(_)
UnitDicts(n) ==
    IF n = 0 THEN {<<>>}
    ELSE LET shorter == UnitDicts(n - 1)
         IN  shorter \cup
             {Append(d, [unit |-> u, arr |-> ObsOfUnit(k)]) :
                d \in {x \in shorter : Len(x) = n - 1}, u \in UnitPool, k \in 0..MaxUnitObs}

DistinctUnits(d) == \A i, j \in DOMAIN d : i # j => d[i].unit # d[j].unit

UnitInit ==
    /\ pc = "start"
    /\ pick_tag \in PickTags
    /\ pick_units \in {d \in UnitDicts(MaxUnits) : DistinctUnits(d)}
    /\ unit_key = NoneV
    /\ engineIdle /\ fetchIdle /\ batchIdle /\ resolverIdle /\ variantIdle /\ txnIdle /\ refreshIdle

\* unit_key = _pick_unit(tag, units)
PickUnit ==
    /\ pc = "start"
    /\ unit_key' = _pick_unit(pick_tag, pick_units)
    /\ pc' = "picked"
    /\ UNCHANGED <<pick_tag, pick_units, outsideUnit>>

UnitNext == PickUnit

SpecUnit == UnitInit /\ [][UnitNext]_vars

(* -------------------------------- C21 ---------------------------------- *)

ShareLikeName(t) == Contains(t, StrShare) \/ Contains(t, StrsharesLower)

ObsCount(u) == Len(UnitArr(pick_units, u))

\* C21 as stated: the unit picked is the first reported unit of the tag's
\* override list; else "shares" (share-like tag) or "USD" (otherwise) when
\* reported; else the reported unit with the most observations (None when no
\* unit has any).
C21_AsStated ==
    pc = "picked" =>
        LET names == UnitNames(pick_units)
            overrides == IF pick_tag \in DOMAIN UNIT_BY_TAG
                         THEN SelectSeq(UNIT_BY_TAG[pick_tag], LAMBDA u : u \in names)
                         ELSE <<>>
            heuristic == IF ShareLikeName(pick_tag) THEN "shares" ELSE "USD"
        IN  IF Len(overrides) > 0 THEN unit_key = Some(overrides[1])
            ELSE IF heuristic \in names THEN unit_key = Some(heuristic)
            ELSE \/ /\ unit_key = NoneV
                    /\ \A u \in names : ObsCount(u) = 0
                 \/ \E u \in names :
                       /\ unit_key = Some(u)
                       /\ \A v \in names : ObsCount(u) >= ObsCount(v)

(* ------------------------------ C22, C23, C24 --------------------------- *)

\* the keyword w occurs in the tag name t, letter case ignored
Occurs(w, t) ==
    \E i \in 1..(Len(t) - Len(w) + 1) :
        SubSeq(LowerStr(t), i, i + Len(w) - 1) = LowerStr(w)

\* the tags of the document whose name holds every keyword
FullMatches == {t \in DOMAIN cf.facts["us-gaap"] : \A i \in DOMAIN keywords : Occurs(keywords[i], t)}

\* the tags of the document whose name holds some keyword but not every one
PartialMatches ==
    {t \in DOMAIN cf.facts["us-gaap"] :
        /\ \E i \in DOMAIN keywords : Occurs(keywords[i], t)
        /\ \E i \in DOMAIN keywords : ~Occurs(keywords[i], t)}

\* the period map of one tag of the document, as keyword_fallback builds it
MapOfTag(t) == series_to_map(extractor("quarterly", cf, t), "quarterly", derive_q4)

\* C22 as stated: keyword_fallback returns the series of the matching tag with
\* the most period keys: no matching tag of the document has a series with
\* more period keys than the one returned.
C22_AsStated ==
    pc = "returned" =>
        \A t \in FullMatches :
            Cardinality(DOMAIN MapOfTag(t)) <= Cardinality(DOMAIN fallback_map)

\* C23: keyword_fallback takes a tag only when every keyword occurs in its
\* name, letter case ignored: the series returned is that of a tag naming
\* every keyword and having data, and it is empty when the document has no
\* such tag, whatever the tags naming only some of the keywords report.
C23_OnlyFullMatches ==
    pc = "returned" =>
        LET withData == {t \in FullMatches : extractor("quarterly", cf, t) # <<>>}
        IN  IF withData = {} THEN fallback_map = <<>>
            ELSE \E t \in withData : fallback_map = MapOfTag(t)

\* C23 witness: the document has data under a tag naming one keyword only and
\* under a tag naming both, and the series returned is the latter's.
C23_Witness ==
    /\ pc = "returned"
    /\ \E p \in PartialMatches : extractor("quarterly", cf, p) # <<>>
    /\ \E t \in FullMatches : fallback_map = MapOfTag(t) /\ fallback_map # <<>>
    /\ \A p \in PartialMatches : fallback_map # MapOfTag(p)

\* the period values of one tag before any derivation: Q1..Q4 and FY
RawMapOfTag(t) == QuarterlyTmpLoop(extractor("quarterly", cf, t), <<>>)

\* the preferred tags' raw maps merged by preference, the fourth quarter
\* derived from the merged values afterwards
DeriveAfterMerge ==
    LET raw == [i \in DOMAIN pref |-> [tag |-> pref[i], map |-> RawMapOfTag(pref[i])]]
        m   == merge_by_preference(raw, pref).merged
    IN  QuarterlyYearLoop(m, {k[1] : k \in DOMAIN m}, TRUE, <<>>)

\* C24 as stated: for a concept with Q4 derivation the preferred-tag series is
\* the one obtained by merging the tags' reported values by preference first
\* and deriving Q4 = FY - (Q1 + Q2 + Q3) from the merged values afterwards, and
\* the series returned carries it.
C24_AsStated ==
    (pc = "returned" /\ derive_q4) =>
        /\ merged = DeriveAfterMerge
        /\ \A k \in DOMAIN DeriveAfterMerge : k \in DOMAIN out /\ out[k] = DeriveAfterMerge[k]

(* ------------------------------ C25, C30 -------------------------------- *)

\* C25 as stated: without Q4 derivation every quarterly value of the output is
\* the value the input discloses for that very quarter; a Q4 is never taken
\* from the FY value.
C25_AsStated ==
    (pc = "mapped" /\ ~derive_q4) =>
        \A k \in DOMAIN out : Has(k[1], k[2]) /\ out[k] = InputOr0(k[1], k[2])

\* C30: with Q4 derivation a disclosed Q4 never reaches the output: for every
\* fiscal year whose Q4 is disclosed, the output Q4 is the derived difference
\* when the year has an FY value and is absent when it has none.
C30_DisclosedQ4Dropped ==
    (pc = "mapped" /\ derive_q4) =>
        \A y \in Years : Has(y, "Q4") =>
            IF Has(y, "FY")
            THEN /\ <<y, "Q4">> \in DOMAIN out
                 /\ out[<<y, "Q4">>] = InputOr0(y, "FY")
                        - (InputOr0(y, "Q1") + InputOr0(y, "Q2") + InputOr0(y, "Q3"))
            ELSE <<y, "Q4">> \notin DOMAIN out

\* C30 witness: one year discloses a Q4 and an FY value and its output Q4 is
\* the difference, which is not the disclosed value; another year discloses a
\* Q4 without an FY value and has no Q4 in the output.
C30_Witness ==
    /\ pc = "mapped" /\ derive_q4
    /\ \E y \in Years :
          /\ Has(y, "Q4") /\ Has(y, "FY")
          /\ out[<<y, "Q4">>] # InputOr0(y, "Q4")
    /\ \E y \in Years :
          /\ Has(y, "Q4") /\ ~Has(y, "FY")
          /\ <<y, "Q4">> \notin DOMAIN out

(* ------------------------------ C26 ------------------------------------- *)

\* C26 as stated: the secondary adapter is consulted only for a company whose
\* primary fetch returned the empty value; a company whose fetch returned a
\* non-empty document sees no secondary request and every row written for it
\* has source "sec".
C26_AsStated ==
    \A i \in DOMAIN log :
        /\ log[i].consulted => log[i].primary = "empty"
        /\ log[i].primary = "document" =>
              /\ ~log[i].consulted
              /\ \A n \in DOMAIN log[i].batch : log[i].batch[n].source = "sec"

(* --------- etl/external_financials: fetch_yahoo_annual_variants -------- *)

\* the largest number of symbols the provider has rows for
MaxListed == 2

EXCHANGE_SUFFIX_GUESSES ==
    << <<".","V">>, <<".","T","O">>, <<".","N","E">>, <<".","A","X">>, <<".","L">>,
       <<".","H","K">>, <<".","S","W">>, <<".","C","O">>, <<".","H","E">>, <<".","S","T">>,
       <<".","P","A">>, <<".","F">>, <<".","D","E">>, <<".","S","I">> >>

TickerUTX == <<"U","T","X">>
TickerUtxLower == <<"u","t","x">>
TickerABC == <<"A","B","C">>

MANUAL_TICKER_MAP ==
    [t \in {TickerUTX} |->
        << TickerUTX \o <<".","V">>, TickerUTX \o <<".","T","O">>, TickerUTX >>]

ExTSX == <<"T","S","X">>
ExTSXV == <<"T","S","X","V">>
ExCNSX == <<"C","N","S","X">>
ExCNQ == <<"C","N","Q">>
ExASX == <<"A","S","X">>
ExLSE == <<"L","S","E">>
ExHKEX == <<"H","K","E","X">>
ExNYSE == <<"N","Y","S","E">>

\* c.upper()
UpperChar(c) ==
    IF \E i \in DOMAIN LowerCase : LowerCase[i] = c
    THEN UpperCase[CHOOSE i \in DOMAIN LowerCase : LowerCase[i] = c]
    ELSE c

\* s.upper()
UpperStr(s) == [i \in DOMAIN s |-> UpperChar(s[i])]

\* hints = []; if exchange_hint: ex = exchange_hint.upper(); ...
HintsOf(hint) ==
    IF hint = NoneV \/ hint[1] = <<>> THEN <<>>
    ELSE LET ex == UpperStr(hint[1]) IN
         IF ex \in {ExTSX, ExTSXV, ExCNSX, ExCNQ} THEN << <<".","T","O">> >>
         ELSE IF ex = ExASX THEN << <<".","A","X">> >>
         ELSE IF ex = ExLSE THEN << <<".","L">> >>
         ELSE IF ex = ExHKEX THEN << <<".","H","K">> >>
         ELSE <<>>

\* mutant of Candidates: the exchange hint is tried before the base ticker
CandidatesHintFirst(tk, hint) ==
    DictGet(MANUAL_TICKER_MAP, UpperStr(tk), <<>>) \o HintsOf(hint) \o <<tk>>
        \o EXCHANGE_SUFFIX_GUESSES

\* manual = MANUAL_TICKER_MAP.get(ticker.upper(), [])
\* candidates = manual + [ticker] + hints + EXCHANGE_SUFFIX_GUESSES
Candidates(tk, hint) ==
    DictGet(MANUAL_TICKER_MAP, UpperStr(tk), <<>>) \o <<tk>> \o HintsOf(hint)
        \o EXCHANGE_SUFFIX_GUESSES

\* sym = ticker if suffix == ticker else ticker + suffix if suffix.startswith(".") else suffix
SymbolOf(tk, suffix) ==
    IF suffix = tk THEN tk
    ELSE IF Len(suffix) > 0 /\ suffix[1] = "." THEN tk \o suffix
    ELSE suffix

\* fetch_yahoo_annual(sym): the provider's rows for the symbol, [] on any
\* failure or when it has none
fetch_yahoo_annual(provider, sym) == DictGet(provider, sym, <<>>)

\* for r in rows: r["source_symbol"] = sym
Annotated(rows, sym) ==
    [i \in DOMAIN rows |->
        [f \in (DOMAIN rows[i]) \cup {"source_symbol"} |->
            IF f = "source_symbol" THEN sym ELSE rows[i][f]]]

\* the symbols a call for tk may request
SymbolsOf(tk, hint) ==
    {SymbolOf(tk, Candidates(tk, hint)[i]) : i \in DOMAIN Candidates(tk, hint)}

\* the provider that has one row for each symbol of listed, no two alike
ProviderOf(tk, hint, listed) ==
    LET cs == Candidates(tk, hint)
        at(s) == CHOOSE i \in DOMAIN cs : SymbolOf(tk, cs[i]) = s
    IN  [s \in SymbolsOf(tk, hint) |->
            IF s \in listed
            THEN << [fiscal_year |-> 2000 + at(s), fiscal_period |-> "FY",
                     source |-> "external_yahoo", revenue |-> Some(100 * at(s))] >>
            ELSE <<>>]

VariantInit ==
    /\ pc = "start"
    /\ ticker \in {TickerUTX, TickerUtxLower, TickerABC}
    /\ exchange_hint \in {NoneV, Some(<<>>), Some(ExTSX), Some(<<"a","s","x">>), Some(ExLSE),
                          Some(ExHKEX), Some(ExNYSE)}
    /\ yahoo \in {ProviderOf(ticker, exchange_hint, listed) :
                    listed \in SubsetsUpTo(SymbolsOf(ticker, exchange_hint), MaxListed)}
    /\ candidates = <<>> /\ cand_i = 0 /\ tried = {} /\ asked = <<>> /\ variant_rows = <<>>
    /\ engineIdle /\ fetchIdle /\ batchIdle /\ resolverIdle /\ unitIdle /\ txnIdle /\ refreshIdle

\* tried = set(); ...; candidates = manual + [ticker] + hints + EXCHANGE_SUFFIX_GUESSES
BuildCandidates ==
    /\ pc = "start"
    /\ candidates' = Candidates(ticker, exchange_hint)
    /\ cand_i' = 1
    /\ tried' = {}
    /\ pc' = "loop"
    /\ UNCHANGED <<ticker, exchange_hint, yahoo, asked, variant_rows, outsideVariant>>

\* if sym in tried: continue
SkipTried ==
    /\ pc = "loop" /\ cand_i <= Len(candidates)
    /\ SymbolOf(ticker, candidates[cand_i]) \in tried
    /\ cand_i' = cand_i + 1
    /\ UNCHANGED <<pc, ticker, exchange_hint, yahoo, candidates, tried, asked, variant_rows,
                   outsideVariant>>

\* tried.add(sym); rows = fetch_yahoo_annual(sym); if rows: ...; return rows
TryVariant ==
    /\ pc = "loop" /\ cand_i <= Len(candidates)
    /\ \E sym \in {SymbolOf(ticker, candidates[cand_i])} :
          /\ sym \notin tried
          /\ tried' = tried \cup {sym}
          /\ asked' = Append(asked, sym)
          /\ IF fetch_yahoo_annual(yahoo, sym) # <<>>
             THEN /\ variant_rows' = Annotated(fetch_yahoo_annual(yahoo, sym), sym)
                  /\ pc' = "returned"
                  /\ cand_i' = cand_i
             ELSE /\ cand_i' = cand_i + 1
                  /\ UNCHANGED <<pc, variant_rows>>
    /\ UNCHANGED <<ticker, exchange_hint, yahoo, candidates, outsideVariant>>

\* return []
AllEmpty ==
    /\ pc = "loop" /\ cand_i > Len(candidates)
    /\ variant_rows' = <<>>
    /\ pc' = "returned"
    /\ UNCHANGED <<ticker, exchange_hint, yahoo, candidates, cand_i, tried, asked,
                   outsideVariant>>

VariantNext == BuildCandidates \/ SkipTried \/ TryVariant \/ AllEmpty

SpecVariant == VariantInit /\ [][VariantNext]_vars

(* -------------------------------- C27 ---------------------------------- *)

\* the symbols in the order of the claim: the manual mappings of the ticker,
\* the base ticker, the exchange-hint symbol, the suffix guesses
VariantOrder ==
    DictGet(MANUAL_TICKER_MAP, UpperStr(ticker), <<>>)
        \o <<ticker>>
        \o [i \in DOMAIN HintsOf(exchange_hint) |-> ticker \o HintsOf(exchange_hint)[i]]
        \o [i \in DOMAIN EXCHANGE_SUFFIX_GUESSES |-> ticker \o EXCHANGE_SUFFIX_GUESSES[i]]

\* a sequence without the later occurrences of its elements
RECURSIVE FirstOccurrences(_)
FirstOccurrences(sq) ==
    IF sq = <<>> THEN <<>>
    ELSE LET before == FirstOccurrences(SubSeq(sq, 1, Len(sq) - 1))
             x == sq[Len(sq)]
         IN  IF \E i \in DOMAIN before : before[i] = x THEN before ELSE Append(before, x)

C27_WitnessEmpty ==
    /\ pc = "returned"
    /\ variant_rows = <<>>
    /\ Len(asked) = Cardinality(DOMAIN yahoo)

(* ------------- main: the session, row by row, commit and close --------- *)

\* what the actions of a run leave alone
outsideRun ==
    <<script, ext_rows, maps, rows_written, first, engineVars, fetchVars, resolverVars,
      unitVars, variantVars, refreshVars>>

\* mutant of SessionClose: closing the session keeps what it had executed
SessionCloseKeeps(persistent, sess) == sess

\* finally: db.close() -- the open transaction is rolled back, the table is
\* what the last commit left
SessionClose(persistent, sess) == persistent

TxnInit ==
    /\ pc = "running"
    /\ job \in {"annual", "quarterly"}
    /\ companies \in CompanyLists(MaxCompanies)
    /\ cursor = 1
    /\ table = SeedTable(job)
    /\ session_tbl = SeedTable(job)
    /\ total = 0
    /\ crash = ""
    /\ log = <<>> /\ aborted = <<>> /\ todo = <<>>
    /\ script = <<>> /\ ext_rows = <<>> /\ maps = <<>> /\ batch = <<>>
    /\ rows_written = NoneV /\ first = NoneV
    /\ engineIdle /\ fetchIdle /\ resolverIdle /\ unitIdle /\ variantIdle /\ refreshIdle

\* n = backfill_company(db, co): the fetch and the series, up to the upsert loop
RunStarts ==
    /\ pc = "running"
    /\ \E scr \in BatchScripts(job), ext \in ExtResults :
         \E r \in {CompanyRun(job, companies[cursor], scr, ext)} :
             /\ r.raised = ""
             /\ batch' = r.batch
             /\ todo' = r.batch
    /\ pc' = "upserting"
    /\ UNCHANGED <<job, companies, cursor, table, session_tbl, total, crash, log, aborted,
                   outsideRun>>

\* the fetch raises: no row was executed; main ends through finally
RunRaises ==
    /\ pc = "running"
    /\ \E scr \in BatchScripts(job), ext \in ExtResults :
         \E r \in {CompanyRun(job, companies[cursor], scr, ext)} :
             /\ r.raised # ""
             /\ crash' = r.raised
    /\ table' = SessionClose(table, session_tbl)
    /\ session_tbl' = table'
    /\ pc' = "crashed"
    /\ UNCHANGED <<job, companies, cursor, total, log, aborted, batch, todo, outsideRun>>

\* db.execute(stmt); rows_written += 1
ExecuteRow ==
    /\ pc = "upserting" /\ todo # <<>>
    /\ session_tbl' = on_conflict_do_update(session_tbl, Head(todo), IndexOf(job))
    /\ todo' = Tail(todo)
    /\ UNCHANGED <<pc, job, companies, cursor, table, total, crash, log, aborted, batch,
                   outsideRun>>

\* db.commit(); return rows_written; total += n
CommitRun ==
    /\ pc = "upserting" /\ todo = <<>>
    /\ table' = session_tbl
    /\ total' = total + Len(batch)
    /\ log' = Append(log, [company_id |-> companies[cursor].id, batch |-> batch])
    /\ cursor' = cursor + 1
    /\ pc' = IF cursor = Len(companies) THEN "done" ELSE "running"
    /\ UNCHANGED <<job, companies, session_tbl, crash, aborted, batch, todo, outsideRun>>

\* an exception or an interrupt inside the upsert loop or at the commit: it
\* leaves the loop over the companies, and finally: db.close() runs
AbortRun ==
    /\ pc = "upserting"
    /\ aborted' = Append(aborted,
                    [company_id |-> companies[cursor].id,
                     executed |-> SubSeq(batch, 1, Len(batch) - Len(todo))])
    /\ crash' = "aborted"
    /\ table' = SessionClose(table, session_tbl)
    /\ session_tbl' = table'
    /\ pc' = "crashed"
    /\ UNCHANGED <<job, companies, cursor, total, log, batch, todo, outsideRun>>

TxnNext == RunStarts \/ RunRaises \/ ExecuteRow \/ CommitRun \/ AbortRun

SpecTxn == TxnInit /\ [][TxnNext]_vars

(* -------------------------------- C28 ---------------------------------- *)

\* the seed table with the whole batches of the first n committed runs
RECURSIVE CommittedUpTo(_)
CommittedUpTo(n) ==
    IF n = 0 THEN SeedTable(job)
    ELSE CHOOSE done \in {UpsertAll(t, log[n].batch, IndexOf(job)) : t \in {CommittedUpTo(n - 1)}} :
            TRUE

MaxDisclosed == 3
MaxStored == 2

\* the code points of the period strings, as str comparison reads them
CodePoints ==
    [FY |-> <<70, 89>>, Q1 |-> <<81, 49>>, Q2 |-> <<81, 50>>, Q3 |-> <<81, 51>>,
     Q4 |-> <<81, 52>>]

\* a > b for two strings of two characters
StrGreater(a, b) ==
    \/ CodePoints[a][1] > CodePoints[b][1]
    \/ CodePoints[a][1] = CodePoints[b][1] /\ CodePoints[a][2] > CodePoints[b][2]

\* (fy, fp) > latest for tuples of an int and a str
TupleGreater(a, b) == a[1] > b[1] \/ (a[1] = b[1] /\ StrGreater(a[2], b[2]))

\* for item in series: if fy and fp: ... if latest is None or (fy, fp) > latest
RECURSIVE LatestLoop(_, _)
LatestLoop(items, latest) ==
    IF items = <<>> THEN latest
    ELSE LET x == Head(items) IN
         LatestLoop(Tail(items),
            IF x.fy # NoneV /\ x.fy[1] # 0
            THEN (IF latest = NoneV \/ TupleGreater(<<x.fy[1], x.fp>>, latest[1])
                  THEN Some(<<x.fy[1], x.fp>>) ELSE latest)
            ELSE latest)

_latest_period_from_cf(doc) ==
    LatestLoop(extract_quarterly_usd_facts(doc, REV_TAGS[1]), NoneV)

\* order = {"Q1": 1, "Q2": 2, "Q3": 3, "Q4": 4, "FY": 5}
PeriodOrder == [Q1 |-> 1, Q2 |-> 2, Q3 |-> 3, Q4 |-> 4, FY |-> 5]

_is_sec_newer(st, sec) ==
    IF st = NoneV THEN TRUE
    ELSE \/ sec[1] > st[1][1]
         \/ sec[1] = st[1][1] /\ DictGet(PeriodOrder, sec[2], 0) > DictGet(PeriodOrder, st[1][2], 0)

\* .order_by(fiscal_year.desc(), fiscal_period.desc()).limit(1).first()
FirstDescending(periods) ==
    IF periods = {} THEN NoneV
    ELSE Some(CHOOSE k \in periods : \A o \in periods \ {k} : TupleGreater(k, o))

\* the documents: the first revenue tag reports at most MaxDisclosed periods;
\* the empty value stands for a company without CIK or a failed fetch
RefreshDocs ==
    {<<>>} \cup
    {GenQuarterDoc(<<REV_TAGS[1]>>, <<F>>) : F \in SubsetsUpTo(Years \X Periods, MaxDisclosed)}

RefreshInit ==
    /\ pc = "start"
    /\ cf \in RefreshDocs
    /\ stored \in SubsetsUpTo(Years \X {"Q1", "Q2", "Q3", "Q4"}, MaxStored)
    /\ latest_stored = NoneV /\ sec_latest = NoneV /\ refreshed = FALSE
    /\ mergeIdle /\ extractIdle /\ quarterIdle /\ sumIdle /\ fallbackIdle
    /\ fetchIdle /\ batchIdle /\ resolverIdle /\ unitIdle /\ variantIdle /\ txnIdle

\* latest_stored = db.execute(select(...).order_by(...).limit(1)).first()
ReadLatestStored ==
    /\ pc = "start"
    /\ latest_stored' = FirstDescending(stored)
    /\ pc' = "stored_read"
    /\ UNCHANGED <<stored, sec_latest, refreshed, outsideRefresh>>

\* cf = fetch_companyfacts(...); if cf: sec_latest = _latest_period_from_cf(cf)
ReadSecLatest ==
    /\ pc = "stored_read"
    /\ sec_latest' = IF DOMAIN cf # {} THEN _latest_period_from_cf(cf) ELSE NoneV
    /\ pc' = "sec_read"
    /\ UNCHANGED <<stored, latest_stored, refreshed, outsideRefresh>>

\* if sec_latest: if _is_sec_newer(latest_stored, sec_latest): refreshed = True; ...
DecideRefresh ==
    /\ pc = "sec_read"
    /\ refreshed' = (sec_latest # NoneV /\ _is_sec_newer(latest_stored, sec_latest[1]))
    /\ pc' = "decided"
    /\ UNCHANGED <<stored, latest_stored, sec_latest, outsideRefresh>>

RefreshNext == ReadLatestStored \/ ReadSecLatest \/ DecideRefresh

SpecRefresh == RefreshInit /\ [][RefreshNext]_vars

(* -------------------------------- C29 ---------------------------------- *)

\* the periods the first revenue tag discloses in the document
Disclosed ==
    IF DOMAIN cf = {} THEN {}
    ELSE {<<x.fy[1], x.fp>> : x \in {extract_quarterly_usd_facts(cf, REV_TAGS[1])[i] :
                                        i \in DOMAIN extract_quarterly_usd_facts(cf, REV_TAGS[1])}}

\* a is later than b: by fiscal year, then by the rank Q1 < Q2 < Q3 < Q4 < FY
RankLater(a, b) ==
    LET rank(p) == CASE p = "Q1" -> 1 [] p = "Q2" -> 2 [] p = "Q3" -> 3 [] p = "Q4" -> 4
                     [] p = "FY" -> 5
    IN  a[1] > b[1] \/ (a[1] = b[1] /\ rank(a[2]) > rank(b[2]))

\* C29 as stated: the latest disclosed period is the maximum of the disclosed
\* periods by fiscal year and then by the rank Q1 < Q2 < Q3 < Q4 < FY, and the
\* backfills run exactly when that maximum is later, in the same order, than
\* the latest stored period, or when nothing is stored.
C29_AsStated ==
    pc = "decided" =>
        IF Disclosed = {} THEN sec_latest = NoneV /\ ~refreshed
        ELSE LET top == CHOOSE k \in Disclosed : \A o \in Disclosed \ {k} : RankLater(k, o)
             IN  /\ sec_latest = Some(top)
                 /\ refreshed <=>
                       \/ stored = {}
                       \/ \A s \in stored : RankLater(top, s)
====
